---- MODULE Spec2Model ----
(***************************************************************************)
(* A model of the custom-render-pass framework of ExtendedGraphics-        *)
(* Programming: the view filter kept in duplicate for the game thread and  *)
(* the render thread, the render-pass subsystem with its fenced            *)
(* destruction, and the per-view data cache with idle eviction.            *)
(*                                                                         *)
(* The render thread is a FIFO queue of commands (ENQUEUE_RENDER_COMMAND); *)
(* the game thread's AsyncTask queue is a second FIFO queue.               *)
(***************************************************************************)
EXTENDS Integers, Sequences, FiniteSets, TLC

\* ---------------------------------------------------------------- bounds

\* Pass objects ever created by GetPass.
MaxPasses == 2
\* Fences ever started by DestroyPass.
MaxFences == 2
\* Render commands pending at once (guards of the enqueuing game-thread calls).
MaxQueue == 3
\* Commands pending while a Tick in which a pass destroys a pass may still run.
MaxTickQueue == 4
\* Filter mutations issued in one run.
MaxFilterCalls == 3
\* Elements of a filter list handed to a query.
MaxElements == 2
\* Largest CleanupFrameThreshold a cache is configured with.
MaxThreshold == 2
\* ConstructProxyData_GameThread calls made by TickComponent.
MaxConstructCalls == 3

\* ------------------------------------------------------------- constants

\* nullptr, the result of a failed lookup.
Null == 0
\* The default of T_EGP_PerViewData::CleanupFrameThreshold.
DefaultCleanupFrameThreshold == 60

PassTypes == {"PassX", "PassY"}
ComponentIDs == {"A", "B"}
\* The components that register with the passes of the whole subsystem.
SubsystemComponentIDs == {"A"}
ViewIDs == {1, 2}
FilterValues == {1, 2}
\* What a filter is asked about: the listed values and one that is never listed.
Candidates == FilterValues \cup {3}
PassIDs == 1..MaxPasses
Thresholds == (-1)..MaxThreshold

VARIABLES
    \* U_EGP_RenderPassSubsystem
    passes, dyingPassFences, isCurrentlyDying, finishDestroyed,
    \* FRenderCommandFence objects: the fences whose marker has executed
    fencesComplete,
    \* object allocation
    nextPass, nextFence,
    \* U_EGP_RenderPass
    Components_GameThread, ComponentProxies_RenderThread,
    \* F_EGP_RenderPassSceneViewExtension::stopAllRendering, per pass
    stopAllRendering,
    \* the render thread's command queue, and the commands it has executed
    renderQueue, executed,
    \* U_EGP_ViewFilter: one filter list, in its two copies
    filter_GT, filter_RT,
    \* the game thread's task queue and the other thread's position
    gameTasks, workerOp, filterCalls,
    \* T_EGP_PerViewData
    dataByViewID, CleanupFrameThreshold, CleanupPreventionByViewID,
    \* history of the cache: Tick() calls since each view's last access,
    \* whether the view was protected at one of them, accesses since the last Tick()
    ticksSinceAccess, protectedAtTick, accessedSinceTick,
    \* the Resample() calls made by the latest DataForView call, in order
    resampleCalls,
    \* history of the two copies: the polarity each element was added with, and
    \* whether Configure has been applied since the copy was last cleared
    history_GT, history_RT,
    \* U_EGP_RenderPassComponent objects: the destroyed ones (IsValid is false),
    \* and the ones whose EnabledInCustomPass is true
    destroyedComponents, EnabledInCustomPass,
    \* the render thread has faulted on a destroyed object
    renderThreadFaulted,
    \* the table each pass's Tick_RenderThread saw at its latest call
    tableAtTick_RenderThread,
    \* U_EGP_ViewFilter: its ten lists and ExcludeAll
    viewFilter, ExcludeAll,
    \* a call of a const query: its arguments and what it returned
    query, returned,
    \* U_EGP_RenderPass::SceneViewExtension: the passes whose
    \* InitThisPass_GameThread has run and given them their extension
    SceneViewExtension,
    \* the latest evaluation of each extension's IsActiveThisFrame functors
    activation,
    \* how each component's BeginPlay ended, and the check() that has failed
    beginPlayOutcome, assertionFailed,
    \* U_EGP_RenderPassComponent::renderThreadProxy: each component's shared
    \* buffer; the ConstructProxyData_GameThread calls made so far; and what
    \* each component's latest GetProxy_RenderThread() returned
    renderThreadProxy, constructCalls, proxyRead,
    \* U_EGP_RenderPassSubsystem::passBuffer: the passes Tick is iterating over
    passBuffer

subsystemVars == <<passes, dyingPassFences, isCurrentlyDying, finishDestroyed,
                   fencesComplete, nextPass, nextFence, Components_GameThread,
                   ComponentProxies_RenderThread, stopAllRendering>>
queueVars == <<renderQueue, executed>>
filterVars == <<filter_GT, filter_RT, gameTasks, workerOp, filterCalls,
                history_GT, history_RT>>
componentVars == <<destroyedComponents, EnabledInCustomPass, renderThreadFaulted,
                   tableAtTick_RenderThread>>
viewFilterVars == <<viewFilter, ExcludeAll, query, returned>>
cacheVars == <<dataByViewID, CleanupFrameThreshold, CleanupPreventionByViewID,
               ticksSinceAccess, protectedAtTick, accessedSinceTick, resampleCalls>>
\* What has happened to each pass and component over its lifetime.
lifetimeVars == <<SceneViewExtension, activation, beginPlayOutcome, assertionFailed,
                  renderThreadProxy, constructCalls, proxyRead, passBuffer>>
vars == <<subsystemVars, queueVars, filterVars, cacheVars, componentVars, viewFilterVars,
          lifetimeVars>>

\* ------------------------------------------------------------- FilterList

\* TOptional<bool> isWhitelist: NullOpt, true, false.
ModeOf(isWhitelist) == IF isWhitelist THEN "Whitelist" ELSE "Blacklist"

EmptyFilterList == [isWhitelist |-> "Unset", elements |-> <<>>]

IsListed(filter, t) ==
    \E i \in DOMAIN filter.elements : filter.elements[i] = t

\* IsAllowed that treats a list without elements as unconfigured.
IsAllowed_EmptyAllows(filter, t) ==
    IF filter.isWhitelist = "Unset" \/ filter.elements = <<>> THEN TRUE
    ELSE IsListed(filter, t) = (filter.isWhitelist = "Whitelist")

IsAllowed(filter, t) ==
    IF filter.isWhitelist = "Unset" THEN TRUE
    ELSE IsListed(filter, t) = (filter.isWhitelist = "Whitelist")

AddBlacklisted(filter, t) ==
    [isWhitelist |-> "Blacklist", elements |-> Append(filter.elements, t)]

AddWhitelisted(filter, t) ==
    [isWhitelist |-> "Whitelist", elements |-> Append(filter.elements, t)]

\* Remove that forgets the polarity of a list it has emptied.
Remove_ForgetsPolarity(filter, t) ==
    IF SelectSeq(filter.elements, LAMBDA t2 : t2 # t) = <<>>
    THEN EmptyFilterList
    ELSE [filter EXCEPT !.elements = SelectSeq(filter.elements, LAMBDA t2 : t2 # t)]

Remove(filter, t) ==
    [filter EXCEPT !.elements = SelectSeq(filter.elements, LAMBDA t2 : t2 # t)]

Configure(filter, isWhitelist) ==
    [filter EXCEPT !.isWhitelist = ModeOf(isWhitelist)]

Clear(filter) == EmptyFilterList

\* updateFilter that only refuses a blacklisted element for a whitelist.
RejectsAdd_WhitelistOnly(filter, isAdding, isAddingAsWhitelist) ==
    /\ isAdding
    /\ filter.isWhitelist = "Whitelist"
    /\ ~isAddingAsWhitelist

\* updateFilter without its polarity test.
RejectsAdd_Never(filter, isAdding, isAddingAsWhitelist) == FALSE

\* The polarity test of updateFilter: the add is logged as an error and dropped.
RejectsAdd(filter, isAdding, isAddingAsWhitelist) ==
    /\ isAdding
    /\ filter.isWhitelist # "Unset"
    /\ filter.isWhitelist # ModeOf(isAddingAsWhitelist)

\* check(isWhitelist != true) of AddBlacklisted fails.
AddBlacklisted_CheckFails(filter) == filter.isWhitelist = "Whitelist"

\* check(isWhitelist != false) of AddWhitelisted fails.
AddWhitelisted_CheckFails(filter) == filter.isWhitelist = "Blacklist"

\* updateFilter reaches a check() that fails.
UpdateFilter_CheckFails(filter, isAdding, isAddingAsWhitelist) ==
    /\ ~RejectsAdd(filter, isAdding, isAddingAsWhitelist)
    /\ isAdding
    /\ IF isAddingAsWhitelist
       THEN AddWhitelisted_CheckFails(filter)
       ELSE AddBlacklisted_CheckFails(filter)

\* The updateFilter lambda of UpdateFilterList.
UpdateFilter(filter, element, isAdding, isAddingAsWhitelist) ==
    IF RejectsAdd(filter, isAdding, isAddingAsWhitelist)
    THEN filter
    ELSE IF isAdding
         THEN IF isAddingAsWhitelist
              THEN AddWhitelisted(filter, element)
              ELSE AddBlacklisted(filter, element)
         ELSE Remove(filter, element)

\* A captured mutation: what UpdateFilterList, ClearFilterList and
\* ConfigureFilterList hand to the two threads.
FilterOp(op, element, isAdding, isWhitelist) ==
    [op |-> op, element |-> element, isAdding |-> isAdding, isWhitelist |-> isWhitelist]

NoFilterOp == FilterOp("None", 0, FALSE, FALSE)

UpdateOps == {FilterOp("Update", e, TRUE, w) : e \in FilterValues, w \in BOOLEAN}
                 \cup {FilterOp("Update", e, FALSE, FALSE) : e \in FilterValues}
ClearOps == {FilterOp("Clear", 0, FALSE, FALSE)}
ConfigureOps == {FilterOp("Configure", 0, FALSE, w) : w \in BOOLEAN}

ApplyFilterOp(filter, o) ==
    CASE o.op = "Update" -> UpdateFilter(filter, o.element, o.isAdding, o.isWhitelist)
      [] o.op = "Clear" -> Clear(filter)
      [] o.op = "Configure" -> Configure(filter, o.isWhitelist)
      [] OTHER -> filter

\* The polarities of the elements that Remove(t) keeps.
RECURSIVE KeptPolarities(_, _, _)
KeptPolarities(elements, addedAs, t) ==
    IF elements = <<>> THEN <<>>
    ELSE IF Head(elements) = t
         THEN KeptPolarities(Tail(elements), Tail(addedAs), t)
         ELSE <<Head(addedAs)>> \o KeptPolarities(Tail(elements), Tail(addedAs), t)

NoHistory == [addedAs |-> <<>>, configured |-> FALSE]

\* The history of a copy once the mutation has been applied to it.
HistoryAfter(filter, history, o) ==
    CASE o.op = "Update" /\ o.isAdding ->
            IF RejectsAdd(filter, o.isAdding, o.isWhitelist)
            THEN history
            ELSE [history EXCEPT !.addedAs = Append(@, ModeOf(o.isWhitelist))]
      [] o.op = "Update" /\ ~o.isAdding ->
            [history EXCEPT !.addedAs = KeptPolarities(filter.elements, @, o.element)]
      [] o.op = "Clear" -> NoHistory
      [] o.op = "Configure" -> [history EXCEPT !.configured = TRUE]
      [] OTHER -> history

\* The filter lists a query may meet: unset and empty, or of either polarity
\* with any elements.
RECURSIVE SeqsUpTo(_, _)
SeqsUpTo(values, n) ==
    IF n = 0 THEN {<<>>}
    ELSE LET shorter == SeqsUpTo(values, n - 1)
         IN shorter \cup {Append(q, v) : q \in shorter, v \in values}

FilterLists ==
    {EmptyFilterList} \cup
    {[isWhitelist |-> mode, elements |-> elements] :
        mode \in {"Whitelist", "Blacklist"}, elements \in SeqsUpTo(Candidates, MaxElements)}

\* --------------------------------------------------------- render commands

Cmd(kind, pass, fence, isExternalCall, components, op) ==
    [kind |-> kind, pass |-> pass, fence |-> fence, isExternalCall |-> isExternalCall,
     components |-> components, op |-> op, newProxy |-> <<>>]

\* The blob the n-th ConstructProxyData_GameThread call writes: every byte of it
\* comes from that call.
ConstructProxyData_GameThread(n) == <<n, n>>

\* The CopyCustomPassProxy command of TickComponent, with its captured newProxy.
CopyProxyCmd(component, newProxy) ==
    [Cmd("CopyCustomPassProxy", Null, 0, FALSE, {component}, NoFilterOp)
        EXCEPT !.newProxy = newProxy]

\* The DestructCustomRenderPassComponentProxy command of
\* ImplDestructProxyData_GameThread, with its captured shared pointer.
DestructProxyCmd(component) ==
    Cmd("DestructCustomRenderPassComponentProxy", Null, 0, FALSE, {component},
        NoFilterOp)

InitPassCmd(pass) == Cmd("InitPass", pass, 0, FALSE, {}, NoFilterOp)
UpdateProxiesCmd(pass, components) ==
    Cmd("UpdateCustomRenderPassProxies", pass, 0, FALSE, components, NoFilterOp)
CleanupPassCmd(pass, isExternalCall) ==
    Cmd("CleanupPass", pass, 0, isExternalCall, {}, NoFilterOp)
FenceCmd(fence) == Cmd("Fence", Null, fence, FALSE, {}, NoFilterOp)
\* An UpdateFilter command that lost its captured mutation.
UpdateFilterCmd_Empty(o) == Cmd("UpdateFilter", Null, 0, FALSE, {}, NoFilterOp)
UpdateFilterCmd(o) == Cmd("UpdateFilter", Null, 0, FALSE, {}, o)

PassCommandKinds == {"InitPass", "UpdateCustomRenderPassProxies", "CleanupPass"}

\* The commands pending in the render queue that hold a pointer to a pass.
PendingPassCommands ==
    {i \in DOMAIN renderQueue : renderQueue[i].kind \in PassCommandKinds}


\* ------------------------------------------------------------- subsystem

EmptyMap == [x \in {} |-> Null]
MapRemove(m, k) == [x \in DOMAIN m \ {k} |-> m[x]]
MapAdd(m, k, v) == [x \in DOMAIN m \cup {k} |-> IF x = k THEN v ELSE m[x]]
Range(m) == {m[x] : x \in DOMAIN m}

\* The orders in which a TMap of the given keys may be iterated.
IterationOrders(keys) ==
    {order \in [1..Cardinality(keys) -> keys] :
        \A i, j \in DOMAIN order : i # j => order[i] # order[j]}

\* FRenderCommandFence::IsFenceComplete: the fence's marker command has executed.
IsFenceComplete(fence) == fence \in fencesComplete

\* GetPass without creation: passes.Find(type), or nullptr.
FindPass(type) == IF type \in DOMAIN passes THEN passes[type] ELSE Null

\* The state DestroyPass_Impl_GameThread reads and writes, and its return value.
SubsystemState ==
    [passes |-> passes, dyingPassFences |-> dyingPassFences,
     isCurrentlyDying |-> isCurrentlyDying, renderQueue |-> renderQueue,
     nextFence |-> nextFence, ret |-> FALSE]

\* DestroyPass that leaves the pass in `passes`.
RemovePass_Kept(ps, type) == ps

\* passes.Remove(type)
RemovePass(ps, type) == MapRemove(ps, type)

\* The fence begun before the cleanup command is enqueued.
FencedCleanup_FenceFirst(pass, fence, isExternalCall) ==
    <<FenceCmd(fence), CleanupPassCmd(pass, isExternalCall)>>

\* The CleanupPass command, then fence->BeginFence().
FencedCleanup(pass, fence, isExternalCall) ==
    <<CleanupPassCmd(pass, isExternalCall), FenceCmd(fence)>>

\* Whether a call made while the subsystem is dying returns before the fenced cleanup.
IsRedundantWhileDying(isExternalCall) == ~isExternalCall

DestroyPass_Impl_GameThread(st, type, isExternalCall) ==
    IF type \notin DOMAIN st.passes
    THEN [st EXCEPT !.ret = FALSE]
    ELSE IF st.isCurrentlyDying /\ IsRedundantWhileDying(isExternalCall)
    THEN [st EXCEPT !.ret = TRUE]
    ELSE [st EXCEPT
            !.passes = IF st.isCurrentlyDying THEN @ ELSE RemovePass(@, type),
            !.dyingPassFences = MapAdd(@, st.passes[type], st.nextFence),
            !.renderQueue = @ \o FencedCleanup(st.passes[type], st.nextFence, isExternalCall),
            !.nextFence = @ + 1,
            !.ret = TRUE]

\* The loop of BeginDestroy: DestroyPass_Impl_GameThread(type, false) for every pass.
RECURSIVE DestroyEveryPass(_, _)
DestroyEveryPass(st, types) ==
    IF types = {} THEN st
    ELSE LET type == CHOOSE t \in types : TRUE
         IN DestroyEveryPass(DestroyPass_Impl_GameThread(st, type, FALSE), types \ {type})

\* Ready as soon as one fence is complete.
IsReadyForFinishDestroy_AnyOf ==
    \/ dyingPassFences = EmptyMap
    \/ \E pass \in DOMAIN dyingPassFences : IsFenceComplete(dyingPassFences[pass])

IsReadyForFinishDestroy ==
    \A pass \in DOMAIN dyingPassFences : IsFenceComplete(dyingPassFences[pass])

SubsystemInit ==
    /\ passes = EmptyMap
    /\ dyingPassFences = EmptyMap
    /\ isCurrentlyDying = FALSE
    /\ finishDestroyed = FALSE
    /\ fencesComplete = {}
    /\ nextPass = 1
    /\ nextFence = 1
    /\ Components_GameThread = [p \in PassIDs |-> {}]
    /\ ComponentProxies_RenderThread = [p \in PassIDs |-> {}]
    /\ stopAllRendering = {}

QueueInit ==
    /\ renderQueue = <<>>
    /\ executed = {}

ComponentInit ==
    /\ destroyedComponents = {}
    /\ EnabledInCustomPass = ComponentIDs
    /\ renderThreadFaulted = FALSE
    /\ tableAtTick_RenderThread = [p \in PassIDs |-> {}]

\* The worlds a scene-view-extension context may belong to; every pass of the
\* subsystem is made with the subsystem's world.
Worlds == {"ThisWorld", "OtherWorld"}
PassWorld == "ThisWorld"

NotEvaluated ==
    [evaluated |-> FALSE, world |-> PassWorld, filterAccepts |-> FALSE, active |-> FALSE]

LifetimeInit ==
    /\ SceneViewExtension = {}
    /\ activation = [pass \in PassIDs |-> NotEvaluated]
    /\ beginPlayOutcome = [c \in ComponentIDs |-> "NotPlaying"]
    /\ assertionFailed = "None"
    /\ renderThreadProxy = [c \in ComponentIDs |-> <<>>]
    /\ constructCalls = 0
    /\ proxyRead = [c \in ComponentIDs |-> <<>>]
    /\ passBuffer = <<>>

\* GetPass that makes a new pass whenever it is allowed to.
CreatesPass_WheneverAllowed(found, createIfNeeded) == createIfNeeded

\* GetPass goes on to NewObject: nothing was found and createIfNeeded is set.
CreatesPass(found, createIfNeeded) == found = Null /\ createIfNeeded

\* What GetPass returns: the pass found, nullptr, or the new pass.
GetPass_Result(type, createIfNeeded) ==
    IF FindPass(type) # Null THEN FindPass(type)
    ELSE IF ~createIfNeeded THEN Null
    ELSE nextPass

\* InitThisPass_GameThread that makes no extension.
InitThisPass_GameThread_Skipped(extensions, pass) == extensions

\* newPass->SceneViewExtension = newPass->InitThisPass_GameThread(*GetWorld()).
InitThisPass_GameThread(extensions, pass) == extensions \cup {pass}

GetPass(type, createIfNeeded) ==
    /\ ~finishDestroyed
    /\ IF ~CreatesPass(FindPass(type), createIfNeeded)
       THEN UNCHANGED vars
       ELSE /\ nextPass <= MaxPasses
            /\ Len(renderQueue) < MaxQueue
            /\ passes' = MapAdd(passes, type, nextPass)
            /\ nextPass' = nextPass + 1
            /\ SceneViewExtension' = InitThisPass_GameThread(SceneViewExtension, nextPass)
            /\ renderQueue' = Append(renderQueue, InitPassCmd(nextPass))
            /\ UNCHANGED <<dyingPassFences, isCurrentlyDying, finishDestroyed,
                           fencesComplete, nextFence, Components_GameThread,
                           ComponentProxies_RenderThread, stopAllRendering,
                           executed, filterVars, cacheVars,
                           componentVars, viewFilterVars, activation,
                           beginPlayOutcome, assertionFailed,
                           renderThreadProxy, constructCalls, proxyRead, passBuffer>>

\* What DestroyPass_GameThread(type) returns when it is called now.
DestroyPass_GameThread_Result(type) ==
    DestroyPass_Impl_GameThread(SubsystemState, type, TRUE).ret

DestroyPass_GameThread(type) ==
    /\ ~finishDestroyed
    /\ nextFence <= MaxFences
    /\ Len(renderQueue) + 2 <= MaxQueue
    /\ LET st == DestroyPass_Impl_GameThread(SubsystemState, type, TRUE)
       IN /\ passes' = st.passes
          /\ dyingPassFences' = st.dyingPassFences
          /\ renderQueue' = st.renderQueue
          /\ nextFence' = st.nextFence
    /\ UNCHANGED <<isCurrentlyDying, finishDestroyed, fencesComplete, nextPass,
                   Components_GameThread, ComponentProxies_RenderThread,
                   stopAllRendering, executed, filterVars, cacheVars,
                   componentVars, viewFilterVars,
                   lifetimeVars>>

BeginDestroy ==
    /\ ~isCurrentlyDying
    /\ LET st == DestroyEveryPass([SubsystemState EXCEPT !.isCurrentlyDying = TRUE],
                                  DOMAIN passes)
       IN /\ isCurrentlyDying' = st.isCurrentlyDying
          /\ passes' = EmptyMap
          /\ dyingPassFences' = st.dyingPassFences
          /\ renderQueue' = st.renderQueue
          /\ nextFence' = st.nextFence
    /\ UNCHANGED <<finishDestroyed, fencesComplete, nextPass, Components_GameThread,
                   ComponentProxies_RenderThread, stopAllRendering, executed,
                   filterVars, cacheVars,
                   componentVars, viewFilterVars,
                   lifetimeVars>>

FinishDestroy ==
    /\ isCurrentlyDying
    /\ ~finishDestroyed
    /\ IsReadyForFinishDestroy
    /\ dyingPassFences' = EmptyMap
    /\ finishDestroyed' = TRUE
    /\ UNCHANGED <<passes, isCurrentlyDying, fencesComplete, nextPass, nextFence,
                   Components_GameThread, ComponentProxies_RenderThread,
                   stopAllRendering, queueVars, filterVars, cacheVars,
                   componentVars, viewFilterVars,
                   lifetimeVars>>

\* UnregisterPassComponent that leaves the set as it was.
Unregistered_Kept(components, component) == components

\* Components_GameThread.Remove(component).
Unregistered(components, component) == components \ {component}

RegisterPassComponent(pass, component) ==
    /\ ~finishDestroyed
    /\ pass \in Range(passes)
    /\ Components_GameThread' =
           [Components_GameThread EXCEPT ![pass] = @ \cup {component}]
    /\ UNCHANGED <<passes, dyingPassFences, isCurrentlyDying, finishDestroyed,
                   fencesComplete, nextPass, nextFence, ComponentProxies_RenderThread,
                   stopAllRendering, queueVars, filterVars, cacheVars,
                   componentVars, viewFilterVars,
                   lifetimeVars>>

UnregisterPassComponent(pass, component) ==
    /\ ~finishDestroyed
    /\ pass \in Range(passes)
    /\ Components_GameThread' =
           [Components_GameThread EXCEPT ![pass] = Unregistered(@, component)]
    /\ UNCHANGED <<passes, dyingPassFences, isCurrentlyDying, finishDestroyed,
                   fencesComplete, nextPass, nextFence, ComponentProxies_RenderThread,
                   stopAllRendering, queueVars, filterVars, cacheVars,
                   componentVars, viewFilterVars,
                   lifetimeVars>>

\* IsValid(c): the component has not been destroyed.
IsValid(c) == c \notin destroyedComponents

\* BeginPlay that only looks at the world.
HasSubsystem_WorldOnly(worldIsValid, subsystemIsValid) == worldIsValid

\* BeginPlay reaches a subsystem: IsValid(world) and IsValid(subsystem).
HasSubsystem(worldIsValid, subsystemIsValid) == worldIsValid /\ subsystemIsValid

\* U_EGP_RenderPassComponent::BeginPlay: with a subsystem, GetPass(GetPassType(),
\* true) and RegisterPassComponent(this); without one, an error is logged.
BeginPlay(c, type, worldIsValid, subsystemIsValid) ==
    /\ IsValid(c)
    /\ beginPlayOutcome[c] = "NotPlaying"
    /\ IF HasSubsystem(worldIsValid, subsystemIsValid)
       THEN /\ ~finishDestroyed
            /\ IF CreatesPass(FindPass(type), TRUE)
               THEN /\ nextPass <= MaxPasses
                    /\ Len(renderQueue) < MaxQueue
                    /\ passes' = MapAdd(passes, type, nextPass)
                    /\ nextPass' = nextPass + 1
                    /\ SceneViewExtension' =
                           InitThisPass_GameThread(SceneViewExtension, nextPass)
                    /\ renderQueue' = Append(renderQueue, InitPassCmd(nextPass))
               ELSE UNCHANGED <<passes, nextPass, SceneViewExtension, renderQueue>>
            /\ Components_GameThread' =
                   [Components_GameThread EXCEPT ![GetPass_Result(type, TRUE)] = @ \cup {c}]
            /\ beginPlayOutcome' = [beginPlayOutcome EXCEPT ![c] = "Registered"]
       ELSE /\ beginPlayOutcome' = [beginPlayOutcome EXCEPT ![c] = "ErrorLogged"]
            /\ UNCHANGED <<passes, nextPass, SceneViewExtension, renderQueue,
                           Components_GameThread>>
    /\ UNCHANGED <<dyingPassFences, isCurrentlyDying, finishDestroyed, fencesComplete,
                   nextFence, ComponentProxies_RenderThread, stopAllRendering,
                   executed, filterVars, cacheVars, componentVars, viewFilterVars,
                   activation, assertionFailed,
                   renderThreadProxy, constructCalls, proxyRead, passBuffer>>

\* GetPassType(): the pass class a component class reports; the components are
\* of one class.
GetPassType(c) == "PassX"

\* The component is between its BeginPlay and its EndPlay.
HasBegunPlay(c) == beginPlayOutcome[c] \in {"Registered", "ErrorLogged"}

\* U_EGP_RenderPassComponent::EndPlay: with a subsystem, GetPass(GetPassType(),
\* true) and UnregisterPassComponent(this) on the pass it returns; then
\* DestructProxyData_GameThread() enqueues the destructor command.
EndPlay(c, worldIsValid, subsystemIsValid) ==
    /\ IsValid(c)
    /\ HasBegunPlay(c)
    /\ IF HasSubsystem(worldIsValid, subsystemIsValid)
       THEN /\ ~finishDestroyed
            /\ IF CreatesPass(FindPass(GetPassType(c)), TRUE)
               THEN /\ nextPass <= MaxPasses
                    /\ Len(renderQueue) + 1 < MaxQueue
                    /\ passes' = MapAdd(passes, GetPassType(c), nextPass)
                    /\ nextPass' = nextPass + 1
                    /\ SceneViewExtension' =
                           InitThisPass_GameThread(SceneViewExtension, nextPass)
                    /\ renderQueue' = renderQueue \o
                           <<InitPassCmd(nextPass), DestructProxyCmd(c)>>
               ELSE /\ Len(renderQueue) < MaxQueue
                    /\ renderQueue' = Append(renderQueue, DestructProxyCmd(c))
                    /\ UNCHANGED <<passes, nextPass, SceneViewExtension>>
            /\ Components_GameThread' =
                   [Components_GameThread EXCEPT
                       ![GetPass_Result(GetPassType(c), TRUE)] = Unregistered(@, c)]
            /\ beginPlayOutcome' = [beginPlayOutcome EXCEPT ![c] = "Unregistered"]
       ELSE /\ Len(renderQueue) < MaxQueue
            /\ renderQueue' = Append(renderQueue, DestructProxyCmd(c))
            /\ beginPlayOutcome' =
                   [beginPlayOutcome EXCEPT ![c] = "EndedWithoutSubsystem"]
            /\ UNCHANGED <<passes, nextPass, SceneViewExtension, Components_GameThread>>
    /\ UNCHANGED <<dyingPassFences, isCurrentlyDying, finishDestroyed, fencesComplete,
                   nextFence, ComponentProxies_RenderThread, stopAllRendering,
                   executed, filterVars, cacheVars, componentVars, viewFilterVars,
                   activation, assertionFailed,
                   renderThreadProxy, constructCalls, proxyRead, passBuffer>>

\* The `components` array that Tick_GameThread collects and hands to its command.
CollectedComponents(pass) == {c \in Components_GameThread[pass] : IsValid(c)}

\* A component object is destroyed.
ComponentDestroyed(c) ==
    /\ IsValid(c)
    /\ destroyedComponents' = destroyedComponents \cup {c}
    /\ UNCHANGED <<EnabledInCustomPass, renderThreadFaulted, tableAtTick_RenderThread,
                   subsystemVars, queueVars, filterVars, cacheVars, viewFilterVars,
                   lifetimeVars>>

\* The owner of a component writes its public EnabledInCustomPass field.
SetEnabledInCustomPass(c, enabled) ==
    /\ EnabledInCustomPass' = IF enabled THEN EnabledInCustomPass \cup {c}
                                         ELSE EnabledInCustomPass \ {c}
    /\ UNCHANGED <<destroyedComponents, renderThreadFaulted, tableAtTick_RenderThread,
                   subsystemVars, queueVars, filterVars, cacheVars, viewFilterVars,
                   lifetimeVars>>

\* U_EGP_RenderPassComponent::TickComponent: a new blob is constructed on the
\* game thread and handed, by value, to a CopyCustomPassProxy command.
TickComponent(c) ==
    /\ IsValid(c)
    /\ constructCalls < MaxConstructCalls
    /\ Len(renderQueue) < MaxQueue
    /\ constructCalls' = constructCalls + 1
    /\ renderQueue' = Append(renderQueue,
                             CopyProxyCmd(c, ConstructProxyData_GameThread(constructCalls + 1)))
    /\ UNCHANGED <<subsystemVars, executed, filterVars, cacheVars, componentVars,
                   viewFilterVars, SceneViewExtension, activation, beginPlayOutcome,
                   assertionFailed, renderThreadProxy, proxyRead, passBuffer>>

\* passBuffer after `for (const auto& [type, pass] : passes) passBuffer.Add(pass)`,
\* in any order the map may iterate in.
FilledBuffers ==
    {[i \in DOMAIN order |-> passes[order[i]]] : order \in IterationOrders(DOMAIN passes)}

\* The loop that leaves out the last pass of its range.
TickedRange_SkipsLast(buffer, from, to) ==
    [i \in 1..(to - from) |->
        UpdateProxiesCmd(buffer[from + i - 1], CollectedComponents(buffer[from + i - 1]))]

\* for (auto pass : passBuffer) pass->Tick_GameThread(): the commands of the
\* passes at positions from..to of the buffer, one each.
TickedRange(buffer, from, to) ==
    [i \in 1..(to - from + 1) |->
        UpdateProxiesCmd(buffer[from + i - 1], CollectedComponents(buffer[from + i - 1]))]

\* U_EGP_RenderPassSubsystem::Tick: Tick_GameThread on every pass of `passes`,
\* each enqueuing one command that carries the pass's current components.
Tick ==
    /\ ~isCurrentlyDying
    /\ DOMAIN passes # {}
    /\ Len(renderQueue) + Cardinality(DOMAIN passes) <= MaxQueue
    /\ passBuffer = <<>>
    /\ \E filled \in FilledBuffers :
          renderQueue' = renderQueue \o TickedRange(filled, 1, Len(filled))
    /\ passBuffer' = <<>>
    /\ UNCHANGED <<subsystemVars, executed, filterVars, cacheVars,
                   componentVars, viewFilterVars,
                   SceneViewExtension, activation, beginPlayOutcome, assertionFailed,
                   renderThreadProxy, constructCalls, proxyRead>>

\* U_EGP_RenderPassSubsystem::Tick in which the Tick_GameThread override of one
\* pass of passBuffer calls GetPass(type, true) for a type that has no pass,
\* before or after it calls the base Tick_GameThread: the new pass joins
\* `passes`, not passBuffer.
Tick_PassCreatesPass ==
    /\ ~isCurrentlyDying
    /\ DOMAIN passes # {}
    /\ nextPass <= MaxPasses
    /\ Len(renderQueue) + Cardinality(DOMAIN passes) + 1 <= MaxTickQueue
    /\ passBuffer = <<>>
    /\ \E filled \in FilledBuffers, caller \in 1..Cardinality(DOMAIN passes),
          type \in PassTypes \ DOMAIN passes, baseFirst \in BOOLEAN :
          LET callerTicks == IF baseFirst THEN caller ELSE caller - 1
          IN /\ passes' = MapAdd(passes, type, nextPass)
             /\ renderQueue' = renderQueue
                    \o TickedRange(filled, 1, callerTicks)
                    \o <<InitPassCmd(nextPass)>>
                    \o TickedRange(filled, callerTicks + 1, Len(filled))
    /\ nextPass' = nextPass + 1
    /\ SceneViewExtension' = InitThisPass_GameThread(SceneViewExtension, nextPass)
    /\ passBuffer' = <<>>
    /\ UNCHANGED <<dyingPassFences, isCurrentlyDying, finishDestroyed, fencesComplete,
                   nextFence, Components_GameThread, ComponentProxies_RenderThread,
                   stopAllRendering, executed, filterVars, cacheVars,
                   componentVars, viewFilterVars, activation, beginPlayOutcome,
                   assertionFailed, renderThreadProxy, constructCalls, proxyRead>>

\* U_EGP_RenderPassSubsystem::Tick in which the Tick_GameThread override of one
\* pass of passBuffer calls DestroyPass_GameThread(type), before or after it
\* calls the base Tick_GameThread; the passes after it in passBuffer are still
\* ticked.
Tick_PassDestroysPass ==
    /\ ~isCurrentlyDying
    /\ DOMAIN passes # {}
    /\ nextFence <= MaxFences
    /\ Len(renderQueue) + Cardinality(DOMAIN passes) + 2 <= MaxTickQueue
    /\ passBuffer = <<>>
    /\ \E order \in IterationOrders(DOMAIN passes),
          caller \in 1..Cardinality(DOMAIN passes),
          type \in DOMAIN passes, baseFirst \in BOOLEAN :
          LET Ticked(i) == UpdateProxiesCmd(passes[order[i]],
                                            CollectedComponents(passes[order[i]]))
              before == [i \in 1..(caller - 1) |-> Ticked(i)]
                           \o (IF baseFirst THEN <<Ticked(caller)>> ELSE <<>>)
              after == (IF baseFirst THEN <<>> ELSE <<Ticked(caller)>>)
                          \o [i \in 1..(Len(order) - caller) |-> Ticked(caller + i)]
              st == DestroyPass_Impl_GameThread(
                        [SubsystemState EXCEPT !.renderQueue = @ \o before], type, TRUE)
          IN /\ passes' = st.passes
             /\ dyingPassFences' = st.dyingPassFences
             /\ nextFence' = st.nextFence
             /\ renderQueue' = st.renderQueue \o after
    /\ UNCHANGED <<isCurrentlyDying, finishDestroyed, fencesComplete, nextPass,
                   Components_GameThread, ComponentProxies_RenderThread,
                   stopAllRendering, executed, filterVars, cacheVars,
                   componentVars, viewFilterVars, lifetimeVars>>

\* ---------------------------------------------------------- render thread

HeadIs(kind) ==
    /\ ~renderThreadFaulted
    /\ renderQueue # <<>>
    /\ Head(renderQueue).kind = kind

Pop ==
    /\ renderQueue' = Tail(renderQueue)
    /\ executed' = executed \cup {<<Head(renderQueue).kind, Head(renderQueue).pass>>}

RenderThread_InitPass ==
    /\ HeadIs("InitPass")
    /\ Pop
    /\ UNCHANGED <<subsystemVars, filterVars, cacheVars,
                   componentVars, viewFilterVars,
                   lifetimeVars>>

\* The command that adds the components to the table it was left with.
RebuiltTable_NoReset(table, components) == table \cup components

\* ComponentProxies_RenderThread.Reset(), then Add(c, proxy) for each component.
RebuiltTable(table, components) == components

\* Tick_RenderThread called before the table is rebuilt.
TableAtTick_BeforeRebuild(table, rebuilt) == table

\* The table as Tick_RenderThread finds it, called last in the command.
TableAtTick(table, rebuilt) == rebuilt

\* What GetProxy_RenderThread() returns on the render thread: *renderThreadProxy.
GetProxy_RenderThread(c) == renderThreadProxy[c]

\* How c->GetProxy_RenderThread() on the captured pointers can end: a destroyed
\* component is read through a dangling pointer, which either still yields its
\* proxy or faults.
UpdateProxiesOutcomes(components) ==
    IF components \cap destroyedComponents = {}
    THEN {"completed"}
    ELSE {"completed", "faulted"}

RenderThread_UpdateProxies ==
    /\ HeadIs("UpdateCustomRenderPassProxies")
    /\ \E outcome \in UpdateProxiesOutcomes(Head(renderQueue).components) :
          LET pass == Head(renderQueue).pass
              rebuilt == RebuiltTable(ComponentProxies_RenderThread[pass],
                                      Head(renderQueue).components)
          IN IF outcome = "completed"
             THEN /\ Pop
                  /\ ComponentProxies_RenderThread' =
                         [ComponentProxies_RenderThread EXCEPT ![pass] = rebuilt]
                  /\ tableAtTick_RenderThread' =
                         [tableAtTick_RenderThread EXCEPT
                             ![pass] = TableAtTick(ComponentProxies_RenderThread[pass],
                                                   rebuilt)]
                  /\ proxyRead' =
                         [c \in ComponentIDs |->
                             IF c \in Head(renderQueue).components
                             THEN GetProxy_RenderThread(c) ELSE proxyRead[c]]
                  /\ UNCHANGED renderThreadFaulted
             ELSE /\ renderThreadFaulted' = TRUE
                  /\ UNCHANGED <<queueVars, ComponentProxies_RenderThread,
                                 tableAtTick_RenderThread, proxyRead>>
    /\ UNCHANGED <<passes, dyingPassFences, isCurrentlyDying, finishDestroyed,
                   fencesComplete, nextPass, nextFence, Components_GameThread,
                   stopAllRendering, destroyedComponents, EnabledInCustomPass,
                   filterVars, cacheVars, viewFilterVars,
                   SceneViewExtension, activation, beginPlayOutcome, assertionFailed,
                   renderThreadProxy, constructCalls, passBuffer>>

\* The assignment of the command that overwrites only the head of the buffer.
CopiedProxy_HeadOnly(old, new) ==
    IF old = <<>> THEN new ELSE <<new[1]>> \o Tail(old)

\* *renderThreadSharedPtr = newProxy.
CopiedProxy(old, new) == new

\* The CopyCustomPassProxy command: it writes the shared buffer, and writes
\* renderThreadTarget through the raw pointer captured from the component.
RenderThread_CopyProxy ==
    /\ HeadIs("CopyCustomPassProxy")
    /\ \E outcome \in UpdateProxiesOutcomes(Head(renderQueue).components) :
          IF outcome = "completed"
          THEN /\ Pop
               /\ renderThreadProxy' =
                      [c \in ComponentIDs |->
                          IF c \in Head(renderQueue).components
                          THEN CopiedProxy(renderThreadProxy[c], Head(renderQueue).newProxy)
                          ELSE renderThreadProxy[c]]
               /\ UNCHANGED renderThreadFaulted
          ELSE /\ renderThreadFaulted' = TRUE
               /\ UNCHANGED <<queueVars, renderThreadProxy>>
    /\ UNCHANGED <<subsystemVars, filterVars, cacheVars, viewFilterVars,
                   destroyedComponents, EnabledInCustomPass, tableAtTick_RenderThread,
                   SceneViewExtension, activation, beginPlayOutcome, assertionFailed,
                   constructCalls, proxyRead, passBuffer>>

\* The buffer after proxy->~POD(): the bytes of an object whose lifetime has
\* ended.
Destructed == <<0, 0>>

\* The DestructCustomRenderPassComponentProxy command: nothing for a proxy that
\* was never created, else the destructor of the POD in the shared buffer.
RenderThread_DestructProxy ==
    /\ HeadIs("DestructCustomRenderPassComponentProxy")
    /\ Pop
    /\ renderThreadProxy' =
           [c \in ComponentIDs |->
               IF c \in Head(renderQueue).components /\ Len(renderThreadProxy[c]) # 0
               THEN Destructed ELSE renderThreadProxy[c]]
    /\ UNCHANGED <<subsystemVars, filterVars, cacheVars, viewFilterVars,
                   componentVars,
                   SceneViewExtension, activation, beginPlayOutcome, assertionFailed,
                   constructCalls, proxyRead, passBuffer>>

\* The subsystemIsDying argument the CleanupPass command hands to
\* CleanupThisPass_RenderThread: the isExternalCall it captured.
SubsystemIsDying(cmd) == cmd.isExternalCall

\* CleanupThisPass_RenderThread: SceneViewExtension->KillRendering().
RenderThread_CleanupPass ==
    /\ HeadIs("CleanupPass")
    /\ Pop
    /\ stopAllRendering' = stopAllRendering \cup {Head(renderQueue).pass}
    /\ UNCHANGED <<passes, dyingPassFences, isCurrentlyDying, finishDestroyed,
                   fencesComplete, nextPass, nextFence, Components_GameThread,
                   ComponentProxies_RenderThread, filterVars, cacheVars,
                   componentVars, viewFilterVars,
                   lifetimeVars>>

RenderThread_Fence ==
    /\ HeadIs("Fence")
    /\ Pop
    /\ fencesComplete' = fencesComplete \cup {Head(renderQueue).fence}
    /\ UNCHANGED <<passes, dyingPassFences, isCurrentlyDying, finishDestroyed,
                   nextPass, nextFence, Components_GameThread,
                   ComponentProxies_RenderThread, stopAllRendering,
                   filterVars, cacheVars,
                   componentVars, viewFilterVars,
                   lifetimeVars>>

RenderThread_UpdateFilter ==
    /\ HeadIs("UpdateFilter")
    /\ Pop
    /\ filter_RT' = ApplyFilterOp(filter_RT, Head(renderQueue).op)
    /\ history_RT' = HistoryAfter(filter_RT, history_RT, Head(renderQueue).op)
    /\ UNCHANGED <<subsystemVars, filter_GT, gameTasks, workerOp, filterCalls,
                   history_GT, cacheVars,
                   componentVars, viewFilterVars,
                   lifetimeVars>>


\* ------------------------------------------------- scene view extension

\* testWorld that only compares the worlds.
TestWorld_WorldOnly(pass, contextWorld) ==
    IF contextWorld = PassWorld THEN "NullOpt" ELSE "false"

\* The testWorld functor of F_EGP_RenderPassSceneViewExtension.
TestWorld(pass, contextWorld) ==
    IF pass \notin stopAllRendering /\ contextWorld = PassWorld
    THEN "NullOpt" ELSE "false"

\* The testFilter functor of T_EGP_RenderPassSceneViewExtension, given what
\* filter->ShouldRenderFor(context) answers.
TestFilter(shouldRenderFor) == IF shouldRenderFor THEN "NullOpt" ELSE "false"

\* The extension is selected active when none of its functors answers false.
IsActive(pass, contextWorld, shouldRenderFor) ==
    /\ TestFilter(shouldRenderFor) # "false"
    /\ TestWorld(pass, contextWorld) # "false"

\* The engine evaluates the activation functors of a pass's extension.
IsActiveThisFrame(pass, contextWorld, shouldRenderFor) ==
    /\ pass \in SceneViewExtension
    /\ activation' = [activation EXCEPT ![pass] =
                         [evaluated |-> TRUE, world |-> contextWorld,
                          filterAccepts |-> shouldRenderFor,
                          active |-> IsActive(pass, contextWorld, shouldRenderFor)]]
    /\ UNCHANGED <<subsystemVars, queueVars, filterVars, cacheVars, componentVars,
                   viewFilterVars, SceneViewExtension, beginPlayOutcome,
                   assertionFailed, renderThreadProxy, constructCalls, proxyRead, passBuffer>>

\* F_EGP_RenderPassSceneViewExtension::KillRendering, called by hand.
KillRendering(pass) ==
    /\ pass \in SceneViewExtension
    /\ stopAllRendering' = stopAllRendering \cup {pass}
    /\ UNCHANGED <<passes, dyingPassFences, isCurrentlyDying, finishDestroyed,
                   fencesComplete, nextPass, nextFence, Components_GameThread,
                   ComponentProxies_RenderThread, queueVars, filterVars, cacheVars,
                   componentVars, viewFilterVars, lifetimeVars>>

\* ------------------------------------------------------------ view filter

FilterInit ==
    /\ filter_GT = EmptyFilterList
    /\ filter_RT = EmptyFilterList
    /\ gameTasks = <<>>
    /\ workerOp = NoFilterOp
    /\ filterCalls = 0
    /\ history_GT = NoHistory
    /\ history_RT = NoHistory

\* A mutation called on the game thread: the render command is enqueued and
\* the game-thread copy is updated at once.
MutateFilter_GameThread(o) ==
    /\ filterCalls < MaxFilterCalls
    /\ filterCalls' = filterCalls + 1
    /\ renderQueue' = Append(renderQueue, UpdateFilterCmd(o))
    /\ filter_GT' = ApplyFilterOp(filter_GT, o)
    /\ history_GT' = HistoryAfter(filter_GT, history_GT, o)
    /\ UNCHANGED <<filter_RT, gameTasks, workerOp, history_RT, executed,
                   subsystemVars, cacheVars,
                   componentVars, viewFilterVars,
                   lifetimeVars>>

\* A mutation called on another thread, first half: the render command is enqueued.
MutateFilter_OtherThread(o) ==
    /\ filterCalls < MaxFilterCalls
    /\ workerOp = NoFilterOp
    /\ filterCalls' = filterCalls + 1
    /\ renderQueue' = Append(renderQueue, UpdateFilterCmd(o))
    /\ workerOp' = o
    /\ UNCHANGED <<filter_GT, filter_RT, gameTasks, history_GT, history_RT, executed,
                   subsystemVars, cacheVars,
                   componentVars, viewFilterVars,
                   lifetimeVars>>

UpdateFilterList_GameThread == \E o \in UpdateOps : MutateFilter_GameThread(o)
ClearFilterList_GameThread == \E o \in ClearOps : MutateFilter_GameThread(o)
ConfigureFilterList_GameThread == \E o \in ConfigureOps : MutateFilter_GameThread(o)

UpdateFilterList_OtherThread == \E o \in UpdateOps : MutateFilter_OtherThread(o)
ClearFilterList_OtherThread == \E o \in ClearOps : MutateFilter_OtherThread(o)
ConfigureFilterList_OtherThread == \E o \in ConfigureOps : MutateFilter_OtherThread(o)

\* A mutation called on another thread, second half: AsyncTask(GameThread, ...).
OtherThread_AsyncTask ==
    /\ workerOp # NoFilterOp
    /\ gameTasks' = Append(gameTasks, workerOp)
    /\ workerOp' = NoFilterOp
    /\ UNCHANGED <<filter_GT, filter_RT, filterCalls, history_GT, history_RT,
                   queueVars, subsystemVars, cacheVars,
                   componentVars, viewFilterVars,
                   lifetimeVars>>

\* The game thread runs the oldest task queued for it.
GameThread_RunTask ==
    /\ gameTasks # <<>>
    /\ filter_GT' = ApplyFilterOp(filter_GT, Head(gameTasks))
    /\ gameTasks' = Tail(gameTasks)
    /\ history_GT' = HistoryAfter(filter_GT, history_GT, Head(gameTasks))
    /\ UNCHANGED <<filter_RT, workerOp, filterCalls, history_RT,
                   queueVars, subsystemVars, cacheVars,
                   componentVars, viewFilterVars,
                   lifetimeVars>>

\* A UTextureRenderTarget* argument: nullptr, or an object whose
\* GameThread_GetRenderTargetResource() is a resource or is still null.
NullRenderTarget == [isNull |-> TRUE, resource |-> Null]
RenderTargets ==
    {NullRenderTarget} \cup
    {[isNull |-> FALSE, resource |-> r] : r \in FilterValues \cup {Null}}

\* The mutation FilterByRenderTarget(UTextureRenderTarget*, isWhitelist) hands
\* to UpdateFilterList; none when the resource is not initialized.
FilterByRenderTarget_Op(rt, isWhitelist) ==
    IF rt.isNull
    THEN FilterOp("Update", Null, TRUE, isWhitelist)
    ELSE IF rt.resource # Null
         THEN FilterOp("Update", rt.resource, TRUE, isWhitelist)
         ELSE NoFilterOp

\* The mutation RemoveByRenderTarget(UTextureRenderTarget*) hands to
\* UpdateFilterList: for nullptr it passes isAdding = true, isAddingAsWhitelist
\* = false.
RemoveByRenderTarget_Op(rt) ==
    IF rt.isNull
    THEN FilterOp("Update", Null, TRUE, FALSE)
    ELSE IF rt.resource # Null
         THEN FilterOp("Update", rt.resource, FALSE, FALSE)
         ELSE NoFilterOp

FilterByRenderTarget(rt, isWhitelist) ==
    IF FilterByRenderTarget_Op(rt, isWhitelist) = NoFilterOp
    THEN UNCHANGED vars
    ELSE MutateFilter_GameThread(FilterByRenderTarget_Op(rt, isWhitelist))

RemoveByRenderTarget(rt) ==
    IF RemoveByRenderTarget_Op(rt) = NoFilterOp
    THEN UNCHANGED vars
    ELSE MutateFilter_GameThread(RemoveByRenderTarget_Op(rt))

\* ------------------------------------------------------- filter queries

\* The threads a query is made on.
QueryThreads == {"GameThread", "RenderThread"}
IsInRenderingThread(thread) == thread = "RenderThread"
IsInGameThread(thread) == thread = "GameThread"

\* What a query is about: the scene, render target, viewport, player index and
\* view actor of a view and of its family.
Views == [Scene : FilterValues, RenderTarget : FilterValues, Viewport : FilterValues,
          PlayerIndex : FilterValues, ViewActor : FilterValues]

\* What each list of a view filter holds when it is queried.
FilterChoices == {EmptyFilterList, AddWhitelisted(EmptyFilterList, 1)}

ViewFilters ==
    [byRenderTarget_GT : FilterChoices, byRenderTarget_RT : FilterChoices,
     byScene_GT : FilterChoices, byScene_RT : FilterChoices,
     byViewport_GT : FilterChoices, byViewport_RT : FilterChoices,
     byViewActor_GT : FilterChoices, byViewActor_RT : FilterChoices,
     byPlayerIndex_GT : FilterChoices, byPlayerIndex_RT : FilterChoices]

\* A newly constructed U_EGP_ViewFilter.
NewViewFilter ==
    [byRenderTarget_GT |-> EmptyFilterList, byRenderTarget_RT |-> EmptyFilterList,
     byScene_GT |-> EmptyFilterList, byScene_RT |-> EmptyFilterList,
     byViewport_GT |-> EmptyFilterList, byViewport_RT |-> EmptyFilterList,
     byViewActor_GT |-> EmptyFilterList, byViewActor_RT |-> EmptyFilterList,
     byPlayerIndex_GT |-> EmptyFilterList, byPlayerIndex_RT |-> EmptyFilterList]

\* (rThread && list_RT.IsAllowed(t)) || (gThread && list_GT.IsAllowed(t))
IsAllowedOnThread(thread, list_RT, list_GT, t) ==
    \/ IsInRenderingThread(thread) /\ IsAllowed(list_RT, t)
    \/ IsInGameThread(thread) /\ IsAllowed(list_GT, t)

ShouldRenderFor_Viewport(thread, viewport) ==
    /\ ~ExcludeAll
    /\ IsAllowedOnThread(thread, viewFilter.byViewport_RT, viewFilter.byViewport_GT,
                         viewport)

\* The scene overload without its test of ExcludeAll.
ShouldRenderFor_Scene_Unguarded(thread, scene) ==
    IsAllowedOnThread(thread, viewFilter.byScene_RT, viewFilter.byScene_GT, scene)

ShouldRenderFor_Scene(thread, scene) ==
    /\ ~ExcludeAll
    /\ IsAllowedOnThread(thread, viewFilter.byScene_RT, viewFilter.byScene_GT, scene)

\* The extension-context overload that only tests the scene.
ShouldRenderFor_Context_SceneOnly(thread, sveContext) ==
    ShouldRenderFor_Scene(thread, sveContext.Scene)

ShouldRenderFor_Context(thread, sveContext) ==
    /\ ShouldRenderFor_Scene(thread, sveContext.Scene)
    /\ ShouldRenderFor_Viewport(thread, sveContext.Viewport)

ShouldRenderFor_ViewFamily(thread, viewFamily) ==
    /\ ~ExcludeAll
    /\ IsAllowedOnThread(thread, viewFilter.byScene_RT, viewFilter.byScene_GT,
                         viewFamily.Scene)
    /\ IsAllowedOnThread(thread, viewFilter.byRenderTarget_RT,
                         viewFilter.byRenderTarget_GT, viewFamily.RenderTarget)

\* The full-view overload that tests the viewport in place of the view actor.
ShouldRenderFor_View_ByViewport(thread, view) ==
    /\ ShouldRenderFor_ViewFamily(thread, view)
    /\ IsAllowedOnThread(thread, viewFilter.byPlayerIndex_RT,
                         viewFilter.byPlayerIndex_GT, view.PlayerIndex)
    /\ IsAllowedOnThread(thread, viewFilter.byViewport_RT, viewFilter.byViewport_GT,
                         view.Viewport)

ShouldRenderFor_View(thread, view) ==
    /\ ShouldRenderFor_ViewFamily(thread, view)
    /\ IsAllowedOnThread(thread, viewFilter.byPlayerIndex_RT,
                         viewFilter.byPlayerIndex_GT, view.PlayerIndex)
    /\ IsAllowedOnThread(thread, viewFilter.byViewActor_RT,
                         viewFilter.byViewActor_GT, view.ViewActor)

\* No query is being made.
NoQuery == [filter |-> EmptyFilterList, candidate |-> 0, thread |-> "GameThread",
            view |-> [Scene |-> 0, RenderTarget |-> 0, Viewport |-> 0,
                      PlayerIndex |-> 0, ViewActor |-> 0]]
NotReturned == [fn |-> "None", value |-> FALSE]

ViewFilterInit ==
    /\ viewFilter = NewViewFilter
    /\ ExcludeAll = FALSE
    /\ query = NoQuery
    /\ returned = NotReturned

\* The query returns.
Return(fn, value) ==
    /\ returned = NotReturned
    /\ returned' = [fn |-> fn, value |-> value]
    /\ UNCHANGED <<viewFilter, ExcludeAll, query, subsystemVars, queueVars,
                   filterVars, cacheVars, componentVars,
                   lifetimeVars>>

IsAllowed_Call ==
    Return("IsAllowed", IsAllowed(query.filter, query.candidate))

ShouldRenderFor_Viewport_Call ==
    Return("ShouldRenderFor(FViewport)",
           ShouldRenderFor_Viewport(query.thread, query.view.Viewport))

ShouldRenderFor_Scene_Call ==
    Return("ShouldRenderFor(FSceneInterface)",
           ShouldRenderFor_Scene(query.thread, query.view.Scene))

ShouldRenderFor_Context_Call ==
    Return("ShouldRenderFor(FSceneViewExtensionContext)",
           ShouldRenderFor_Context(query.thread, query.view))

ShouldRenderFor_ViewFamily_Call ==
    Return("ShouldRenderFor(FSceneViewFamily)",
           ShouldRenderFor_ViewFamily(query.thread, query.view))

ShouldRenderFor_View_Call ==
    Return("ShouldRenderFor(FSceneView)",
           ShouldRenderFor_View(query.thread, query.view))

\* --------------------------------------------------------- per-view data

\* FIntRect: Min and Max corners.
Rect(minX, minY, maxX, maxY) == [Min |-> <<minX, minY>>, Max |-> <<maxX, maxY>>]
RectSize(r) == <<r.Max[1] - r.Min[1], r.Max[2] - r.Min[2]>>
PointMinus(a, b) == <<a[1] - b[1], a[2] - b[2]>>
ViewRects == {Rect(0, 0, 2, 2), Rect(1, 0, 2, 1)}

\* The user data of an entry: the arguments of the last Resample() it received.
NoResample == [called |-> FALSE, oldResolution |-> <<0, 0>>,
               newResolution |-> <<0, 0>>, oldToNewPixelOffset |-> <<0, 0>>]
ResampleCall(oldRect, newRect) ==
    [called |-> TRUE, oldResolution |-> RectSize(oldRect),
     newResolution |-> RectSize(newRect),
     oldToNewPixelOffset |-> PointMinus(newRect.Min, oldRect.Min)]

\* DataForView that resamples on every call.
NeedsResample_Always(data, viewRect) == TRUE

\* data->PixelSubset != view.ViewRect
NeedsResample(data, viewRect) == data.PixelSubset # viewRect

\* Tick() without the test of CleanupPreventionByViewID.
IsCleanupPrevented_Ignored(viewID) == FALSE

\* CleanupPreventionByViewID.Contains(viewID)
IsCleanupPrevented(viewID) == viewID \in CleanupPreventionByViewID

\* >= in place of >.
IsOverThreshold_Inclusive(data) == data.FramesSinceAccess >= CleanupFrameThreshold

\* data.FramesSinceAccess > CleanupFrameThreshold
\* The eviction test that lets an entry age one more frame.
IsOverThreshold_OneLater(data) == data.FramesSinceAccess > CleanupFrameThreshold + 1

IsOverThreshold(data) == data.FramesSinceAccess > CleanupFrameThreshold

\* DataForView that leaves the timestamp alone.
AccessedEntry_NoReset(data) == data

\* The timestamp DataForView gives the entry it returns.
AccessedEntry(data) == [data EXCEPT !.FramesSinceAccess = 0]

\* The history counts Tick() calls up to the first value no threshold reaches.
HistoryCap == MaxThreshold + 3

CacheInitWith(threshold, prevention) ==
    /\ dataByViewID = EmptyMap
    /\ CleanupFrameThreshold = threshold
    /\ CleanupPreventionByViewID = prevention
    /\ ticksSinceAccess = [v \in ViewIDs |-> -1]
    /\ protectedAtTick = [v \in ViewIDs |-> FALSE]
    /\ accessedSinceTick = {}
    /\ resampleCalls = <<>>

PerViewData_Tick ==
    /\ dataByViewID' =
          [viewID \in {v \in DOMAIN dataByViewID :
                          IsCleanupPrevented(v) \/ ~IsOverThreshold(dataByViewID[v])} |->
              IF IsCleanupPrevented(viewID)
              THEN dataByViewID[viewID]
              ELSE [dataByViewID[viewID] EXCEPT !.FramesSinceAccess = @ + 1]]
    /\ ticksSinceAccess' =
          [v \in ViewIDs |->
              IF ticksSinceAccess[v] < 0 \/ ticksSinceAccess[v] >= HistoryCap
              THEN ticksSinceAccess[v]
              ELSE ticksSinceAccess[v] + 1]
    /\ protectedAtTick' =
          [v \in ViewIDs |-> protectedAtTick[v] \/ IsCleanupPrevented(v)]
    /\ accessedSinceTick' = {}
    /\ UNCHANGED <<CleanupFrameThreshold, CleanupPreventionByViewID, resampleCalls,
                   subsystemVars, queueVars, filterVars,
                   componentVars, viewFilterVars,
                   lifetimeVars>>

DataForView(viewID, viewRect) ==
    /\ LET created == [User |-> NoResample, PixelSubset |-> viewRect,
                       FramesSinceAccess |-> 0]
           found == IF viewID \in DOMAIN dataByViewID
                    THEN dataByViewID[viewID] ELSE created
           accessed == AccessedEntry(found)
           resampled == IF NeedsResample(accessed, viewRect)
                        THEN [accessed EXCEPT
                                !.User = ResampleCall(accessed.PixelSubset, viewRect),
                                !.PixelSubset = viewRect]
                        ELSE accessed
       IN /\ dataByViewID' = MapAdd(dataByViewID, viewID, resampled)
          /\ resampleCalls' = IF NeedsResample(accessed, viewRect)
                              THEN <<ResampleCall(accessed.PixelSubset, viewRect)>>
                              ELSE <<>>
    /\ ticksSinceAccess' = [ticksSinceAccess EXCEPT ![viewID] = 0]
    /\ protectedAtTick' = [protectedAtTick EXCEPT ![viewID] = FALSE]
    /\ accessedSinceTick' = accessedSinceTick \cup {viewID}
    /\ UNCHANGED <<CleanupFrameThreshold, CleanupPreventionByViewID,
                   subsystemVars, queueVars, filterVars,
                   componentVars, viewFilterVars,
                   lifetimeVars>>

\* The owner of the cache writes its public CleanupPreventionByViewID set.
AddCleanupPrevention(viewID) ==
    /\ viewID \notin CleanupPreventionByViewID
    /\ CleanupPreventionByViewID' = CleanupPreventionByViewID \cup {viewID}
    /\ UNCHANGED <<dataByViewID, CleanupFrameThreshold, ticksSinceAccess,
                   protectedAtTick, accessedSinceTick, resampleCalls,
                   subsystemVars, queueVars, filterVars,
                   componentVars, viewFilterVars,
                   lifetimeVars>>

RemoveCleanupPrevention(viewID) ==
    /\ viewID \in CleanupPreventionByViewID
    /\ CleanupPreventionByViewID' = CleanupPreventionByViewID \ {viewID}
    /\ UNCHANGED <<dataByViewID, CleanupFrameThreshold, ticksSinceAccess,
                   protectedAtTick, accessedSinceTick, resampleCalls,
                   subsystemVars, queueVars, filterVars,
                   componentVars, viewFilterVars,
                   lifetimeVars>>

\* --------------------------------------------------------- specifications

\* The render-pass subsystem with the render thread's queue.
Init ==
    /\ SubsystemInit
    /\ QueueInit
    /\ FilterInit
    /\ ComponentInit
    /\ LifetimeInit
    /\ ViewFilterInit
    /\ CacheInitWith(DefaultCleanupFrameThreshold, {})

Next ==
    \/ \E type \in PassTypes, createIfNeeded \in BOOLEAN : GetPass(type, createIfNeeded)
    \/ \E type \in PassTypes : DestroyPass_GameThread(type)
    \/ \E pass \in PassIDs, c \in SubsystemComponentIDs : RegisterPassComponent(pass, c)
    \/ \E pass \in PassIDs, c \in SubsystemComponentIDs : UnregisterPassComponent(pass, c)
    \/ Tick
    \/ BeginDestroy
    \/ FinishDestroy
    \/ RenderThread_InitPass
    \/ RenderThread_UpdateProxies
    \/ RenderThread_CleanupPass
    \/ RenderThread_Fence

Spec == Init /\ [][Next]_vars

\* One view-filter list mutated from the game thread and from another thread.
FilterNext ==
    \/ UpdateFilterList_GameThread
    \/ ClearFilterList_GameThread
    \/ ConfigureFilterList_GameThread
    \/ UpdateFilterList_OtherThread
    \/ ClearFilterList_OtherThread
    \/ ConfigureFilterList_OtherThread
    \/ OtherThread_AsyncTask
    \/ GameThread_RunTask
    \/ RenderThread_UpdateFilter

FilterSpec == Init /\ [][FilterNext]_vars

\* The render-target filter, driven through its UTextureRenderTarget overloads.
RenderTargetNext ==
    \/ \E rt \in RenderTargets, isWhitelist \in BOOLEAN :
          FilterByRenderTarget(rt, isWhitelist)
    \/ \E rt \in RenderTargets : RemoveByRenderTarget(rt)
    \/ RenderThread_UpdateFilter

RenderTargetSpec == Init /\ [][RenderTargetNext]_vars

\* Passes made and destroyed while the engine evaluates their extensions.
ExtensionNext ==
    \/ \E type \in PassTypes : GetPass(type, TRUE)
    \/ \E type \in PassTypes : DestroyPass_GameThread(type)
    \/ \E pass \in PassIDs : KillRendering(pass)
    \/ \E pass \in PassIDs, contextWorld \in Worlds, shouldRenderFor \in BOOLEAN :
          IsActiveThisFrame(pass, contextWorld, shouldRenderFor)
    \/ RenderThread_InitPass
    \/ RenderThread_CleanupPass
    \/ RenderThread_Fence

ExtensionSpec == Init /\ [][ExtensionNext]_vars

\* Components beginning play, with and without a subsystem to register with.
BeginPlayNext ==
    \/ \E c \in ComponentIDs, type \in PassTypes,
          worldIsValid \in BOOLEAN, subsystemIsValid \in BOOLEAN :
          BeginPlay(c, type, worldIsValid, subsystemIsValid)
    \/ Tick
    \/ RenderThread_InitPass
    \/ RenderThread_UpdateProxies

BeginPlaySpec == Init /\ [][BeginPlayNext]_vars

\* Passes that may destroy passes from their Tick_GameThread.
TickNext ==
    \/ \E type \in PassTypes : GetPass(type, TRUE)
    \/ Tick
    \/ Tick_PassDestroysPass
    \/ Tick_PassCreatesPass
    \/ RenderThread_InitPass
    \/ RenderThread_UpdateProxies
    \/ RenderThread_CleanupPass
    \/ RenderThread_Fence

TickSpec == Init /\ [][TickNext]_vars

\* Components that rebuild their proxy while their pass collects proxies.
ProxyNext ==
    \/ GetPass("PassX", TRUE)
    \/ \E pass \in PassIDs, c \in ComponentIDs : RegisterPassComponent(pass, c)
    \/ \E c \in ComponentIDs : TickComponent(c)
    \/ \E c \in ComponentIDs : ComponentDestroyed(c)
    \/ Tick
    \/ RenderThread_InitPass
    \/ RenderThread_CopyProxy
    \/ RenderThread_UpdateProxies

ProxySpec == Init /\ [][ProxyNext]_vars

\* ------------------------------------------------------- thread affinity

\* The threads a function may be called on.
Threads == {"GameThread", "RenderThread", "WorkerThread"}

\* check() compiled out.
Check_Elided(condition) == TRUE

\* check(condition): the call goes on only if the condition holds.
Check(condition) == condition

\* A check() has failed: the program stops in the function, before any of its
\* statements.
CheckFails(fn) ==
    /\ assertionFailed' = fn
    /\ UNCHANGED <<subsystemVars, queueVars, filterVars, cacheVars, componentVars,
                   viewFilterVars, SceneViewExtension, activation, beginPlayOutcome,
                   renderThreadProxy, constructCalls, proxyRead, passBuffer>>

RegisterPassComponent_OnThread(thread, pass, component) ==
    /\ assertionFailed = "None"
    /\ IF Check(IsInGameThread(thread))
       THEN RegisterPassComponent(pass, component)
       ELSE CheckFails("RegisterPassComponent")

UnregisterPassComponent_OnThread(thread, pass, component) ==
    /\ assertionFailed = "None"
    /\ IF Check(IsInGameThread(thread))
       THEN UnregisterPassComponent(pass, component)
       ELSE CheckFails("UnregisterPassComponent")

GetPass_OnThread(thread, type, createIfNeeded) ==
    /\ assertionFailed = "None"
    /\ IF Check(IsInGameThread(thread))
       THEN GetPass(type, createIfNeeded)
       ELSE CheckFails("GetPass")

DestroyPass_GameThread_OnThread(thread, type) ==
    /\ assertionFailed = "None"
    /\ IF Check(IsInGameThread(thread))
       THEN DestroyPass_GameThread(type)
       ELSE CheckFails("DestroyPass_GameThread")

PerViewData_Tick_OnThread(thread) ==
    /\ assertionFailed = "None"
    /\ IF Check(IsInRenderingThread(thread))
       THEN PerViewData_Tick
       ELSE CheckFails("Tick")

DataForView_OnThread(thread, viewID, viewRect) ==
    /\ assertionFailed = "None"
    /\ IF Check(IsInRenderingThread(thread))
       THEN DataForView(viewID, viewRect)
       ELSE CheckFails("DataForView")

GetComponentData_RenderThread_OnThread(thread, pass) ==
    /\ assertionFailed = "None"
    /\ IF Check(IsInRenderingThread(thread))
       THEN Return("GetComponentData_RenderThread", ComponentProxies_RenderThread[pass])
       ELSE CheckFails("GetComponentData_RenderThread")

GetProxy_RenderThread_OnThread(thread, c) ==
    /\ assertionFailed = "None"
    /\ IF Check(IsInRenderingThread(thread))
       THEN Return("GetProxy_RenderThread", GetProxy_RenderThread(c))
       ELSE CheckFails("GetProxy_RenderThread")

\* The thread-checked functions, called on any thread; one pass type, one
\* component and one view, with a cache that keeps an entry for one Tick.
AffinityInit ==
    /\ SubsystemInit
    /\ QueueInit
    /\ FilterInit
    /\ ComponentInit
    /\ LifetimeInit
    /\ ViewFilterInit
    /\ CacheInitWith(0, {})

AffinityNext ==
    \/ \E thread \in Threads, pass \in PassIDs, c \in SubsystemComponentIDs :
          RegisterPassComponent_OnThread(thread, pass, c)
    \/ \E thread \in Threads, pass \in PassIDs, c \in SubsystemComponentIDs :
          UnregisterPassComponent_OnThread(thread, pass, c)
    \/ \E thread \in Threads, createIfNeeded \in BOOLEAN :
          GetPass_OnThread(thread, "PassX", createIfNeeded)
    \/ \E thread \in Threads : DestroyPass_GameThread_OnThread(thread, "PassX")
    \/ \E thread \in Threads : PerViewData_Tick_OnThread(thread)
    \/ \E thread \in Threads, viewRect \in ViewRects :
          DataForView_OnThread(thread, 1, viewRect)
    \/ \E thread \in Threads, pass \in PassIDs :
          GetComponentData_RenderThread_OnThread(thread, pass)
    \/ \E thread \in Threads, c \in SubsystemComponentIDs :
          GetProxy_RenderThread_OnThread(thread, c)

AffinitySpec == AffinityInit /\ [][AffinityNext]_vars

\* A view filter whose mutations all come from the game thread.
GameFilterNext ==
    \/ UpdateFilterList_GameThread
    \/ ClearFilterList_GameThread
    \/ ConfigureFilterList_GameThread
    \/ RenderThread_UpdateFilter

GameFilterSpec == Init /\ [][GameFilterNext]_vars

\* TickComponent of a component that has begun play and not ended it.
TickComponent_WhilePlaying(c) == HasBegunPlay(c) /\ TickComponent(c)

\* Components that begin and end play while passes are destroyed and ticked.
EndPlayNext ==
    \/ \E c \in ComponentIDs, worldIsValid \in BOOLEAN, subsystemIsValid \in BOOLEAN :
          BeginPlay(c, GetPassType(c), worldIsValid, subsystemIsValid)
    \/ \E c \in ComponentIDs, worldIsValid \in BOOLEAN, subsystemIsValid \in BOOLEAN :
          EndPlay(c, worldIsValid, subsystemIsValid)
    \/ \E c \in ComponentIDs : TickComponent_WhilePlaying(c)
    \/ \E c \in ComponentIDs : DestroyPass_GameThread(GetPassType(c))
    \/ Tick
    \/ RenderThread_InitPass
    \/ RenderThread_CopyProxy
    \/ RenderThread_UpdateProxies
    \/ RenderThread_DestructProxy
    \/ RenderThread_CleanupPass
    \/ RenderThread_Fence

EndPlaySpec == Init /\ [][EndPlayNext]_vars

\* ---------------------------------------------- iteration over the table

\* What GetTarget_RenderThread() of a table entry's component can be: nullptr, a
\* primitive component without a scene proxy, or one with a scene proxy.
Targets == {"Null", "NoSceneProxy", "HasSceneProxy"}

\* The tables GetComponentData_RenderThread() can return, as the sequence the
\* map iterates in: one entry per component, its weak pointer valid or stale.
ComponentTables ==
    {table \in UNION {[1..n -> [component : ComponentIDs, isValid : BOOLEAN,
                                target : Targets]] : n \in 0..Cardinality(ComponentIDs)} :
        \A i, j \in DOMAIN table : i # j => table[i].component # table[j].component}

\* ForEachComponent_RenderThread: the components toDo is called on, in order. A
\* stale entry is passed over with `continue`; an entry whose target is null or
\* has no scene proxy leaves the function with `return`.
RECURSIVE ForEachComponent_RenderThread(_)
ForEachComponent_RenderThread(table) ==
    IF table = <<>> THEN <<>>
    ELSE IF ~Head(table).isValid
         THEN ForEachComponent_RenderThread(Tail(table))
         ELSE IF Head(table).target # "HasSceneProxy"
              THEN <<>>
              ELSE <<Head(table).component>>
                      \o ForEachComponent_RenderThread(Tail(table))

ForEachComponent_RenderThread_Call ==
    Return("ForEachComponent_RenderThread", ForEachComponent_RenderThread(query.table))

\* One ForEachComponent_RenderThread call on any table.
ForEachInit ==
    /\ SubsystemInit
    /\ QueueInit
    /\ FilterInit
    /\ ComponentInit
    /\ LifetimeInit
    /\ CacheInitWith(DefaultCleanupFrameThreshold, {})
    /\ viewFilter = NewViewFilter
    /\ ExcludeAll = FALSE
    /\ \E table \in ComponentTables : query = [table |-> table]
    /\ returned = NotReturned

ForEachNext == ForEachComponent_RenderThread_Call

ForEachSpec == ForEachInit /\ [][ForEachNext]_vars

\* One per-view data cache, with any threshold and any protected set.
CacheInit ==
    /\ SubsystemInit
    /\ QueueInit
    /\ FilterInit
    /\ ComponentInit
    /\ LifetimeInit
    /\ ViewFilterInit
    /\ \E threshold \in Thresholds, prevention \in SUBSET ViewIDs :
          CacheInitWith(threshold, prevention)

CacheNext ==
    \/ PerViewData_Tick
    \/ \E viewID \in ViewIDs, viewRect \in ViewRects : DataForView(viewID, viewRect)
    \/ \E viewID \in ViewIDs : AddCleanupPrevention(viewID)
    \/ \E viewID \in ViewIDs : RemoveCleanupPrevention(viewID)

CacheSpec == CacheInit /\ [][CacheNext]_vars

\* One pass with its components, ticked every frame.
PassNext ==
    \/ GetPass("PassX", TRUE)
    \/ \E pass \in PassIDs, c \in ComponentIDs : RegisterPassComponent(pass, c)
    \/ \E pass \in PassIDs, c \in ComponentIDs : UnregisterPassComponent(pass, c)
    \/ \E c \in ComponentIDs : ComponentDestroyed(c)
    \/ \E c \in ComponentIDs, enabled \in BOOLEAN : SetEnabledInCustomPass(c, enabled)
    \/ Tick
    \/ RenderThread_InitPass
    \/ RenderThread_UpdateProxies

PassSpec == Init /\ [][PassNext]_vars

\* One IsAllowed call on any filter list, about any candidate.
IsAllowedInit ==
    /\ SubsystemInit
    /\ QueueInit
    /\ FilterInit
    /\ ComponentInit
    /\ LifetimeInit
    /\ CacheInitWith(DefaultCleanupFrameThreshold, {})
    /\ viewFilter = NewViewFilter
    /\ ExcludeAll = FALSE
    /\ \E filter \in FilterLists, candidate \in Candidates :
          query = [NoQuery EXCEPT !.filter = filter, !.candidate = candidate]
    /\ returned = NotReturned

IsAllowedNext == IsAllowed_Call

IsAllowedSpec == IsAllowedInit /\ [][IsAllowedNext]_vars

\* One ShouldRenderFor call on a view filter in any state, from either thread,
\* about any view.
ShouldRenderInit ==
    /\ SubsystemInit
    /\ QueueInit
    /\ FilterInit
    /\ ComponentInit
    /\ LifetimeInit
    /\ CacheInitWith(DefaultCleanupFrameThreshold, {})
    /\ viewFilter \in ViewFilters
    /\ ExcludeAll \in BOOLEAN
    /\ \E thread \in QueryThreads, view \in Views :
          query = [NoQuery EXCEPT !.thread = thread, !.view = view]
    /\ returned = NotReturned

ShouldRenderNext ==
    \/ ShouldRenderFor_Viewport_Call
    \/ ShouldRenderFor_Scene_Call
    \/ ShouldRenderFor_Context_Call
    \/ ShouldRenderFor_ViewFamily_Call
    \/ ShouldRenderFor_View_Call

ShouldRenderSpec == ShouldRenderInit /\ [][ShouldRenderNext]_vars


\* ----------------------------------------------------------------- claims

\* Every mutation has reached both copies: nothing is queued for either thread
\* and no caller is between its two enqueues.
FilterQuiescent ==
    /\ renderQueue = <<>>
    /\ gameTasks = <<>>
    /\ workerOp = NoFilterOp

\* C1: once every queued render command and every queued game-thread task has
\* executed, the game-thread copy and the render-thread copy of a filter list
\* have the same mode and the same elements, whatever threads the mutations
\* came from.
C1_CopiesConverge ==
    FilterQuiescent =>
        /\ filter_GT.isWhitelist = filter_RT.isWhitelist
        /\ Range(filter_GT.elements) = Range(filter_RT.elements)

\* C2: BeginDestroy puts every pass of `passes` through the fenced path: when it
\* returns, each of them has a CleanupPass command in the render queue and a
\* started fence in dyingPassFences.
C2_BeginDestroyFencesEveryPass ==
    [][BeginDestroy =>
          \A type \in DOMAIN passes :
              /\ passes[type] \in DOMAIN dyingPassFences'
              /\ \E i \in DOMAIN renderQueue' :
                    /\ renderQueue'[i].kind = "CleanupPass"
                    /\ renderQueue'[i].pass = passes[type]]_vars

\* C3: when the subsystem may finish its destruction (IsReadyForFinishDestroy
\* is true after BeginDestroy), no command still pending in the render queue
\* holds a pass that the subsystem has released.
C3_NoPendingCommandAtFinish ==
    (isCurrentlyDying /\ ~finishDestroyed /\ IsReadyForFinishDestroy) =>
        \A i \in PendingPassCommands : renderQueue[i].pass \in Range(passes)

\* The fences of dyingPassFences whose marker is still in the render queue.
PendingDyingFences ==
    {renderQueue[i].fence : i \in {j \in DOMAIN renderQueue : renderQueue[j].kind = "Fence"}}
        \cap Range(dyingPassFences)

\* C4: IsReadyForFinishDestroy is true exactly when no fence of dyingPassFences
\* is still pending: false while the fence of any destroyed pass has not been
\* reached by the render thread, true once all have been.
C4_ReadyIffAllFencesComplete ==
    IsReadyForFinishDestroy <=> (PendingDyingFences = {})

C4_Witness ==
    \E p, q \in DOMAIN dyingPassFences :
        /\ p # q
        /\ IsFenceComplete(dyingPassFences[p])
        /\ dyingPassFences[q] \in PendingDyingFences
        /\ ~IsReadyForFinishDestroy

\* The commands a step appended to the render queue.
Enqueued ==
    IF Len(renderQueue') >= Len(renderQueue)
          /\ SubSeq(renderQueue', 1, Len(renderQueue)) = renderQueue
    THEN SubSeq(renderQueue', Len(renderQueue) + 1, Len(renderQueue'))
    ELSE <<>>

\* C5: an external DestroyPass of an existing pass during normal operation makes
\* GetPass(type, false) return null, enqueues exactly one cleanup command and one
\* fence for that pass, and the lookup stays null until a GetPass(type, true)
\* creates a new pass.
C5_DestroyedPassIsAbsent ==
    [][/\ \A type \in PassTypes :
            (~isCurrentlyDying /\ FindPass(type) # Null /\ DestroyPass_GameThread(type)) =>
                /\ FindPass(type)' = Null
                /\ FindPass(type) \in DOMAIN dyingPassFences'
                /\ Len(Enqueued) = 2
                /\ \E i, j \in DOMAIN Enqueued :
                      /\ i # j
                      /\ Enqueued[i] = CleanupPassCmd(FindPass(type), TRUE)
                      /\ Enqueued[j] = FenceCmd(dyingPassFences'[FindPass(type)])
       /\ \A type \in PassTypes :
            (FindPass(type) = Null /\ FindPass(type)' # Null) =>
                /\ GetPass(type, TRUE)
                /\ FindPass(type)' \notin DOMAIN dyingPassFences]_vars

C5_Witness ==
    /\ ~isCurrentlyDying
    /\ \E type \in PassTypes, old \in DOMAIN dyingPassFences :
          /\ <<"InitPass", old>> \in executed
          /\ old \notin Range(passes)
          /\ FindPass(type) = Null

\* C6: the fence of a destroyed pass is complete only if the pass's
\* CleanupThisPass_RenderThread command has already executed.
C6_FenceCompleteAfterCleanup ==
    \A pass \in DOMAIN dyingPassFences :
        IsFenceComplete(dyingPassFences[pass]) =>
            /\ <<"CleanupPass", pass>> \in executed
            /\ pass \in stopAllRendering

C6_Witness ==
    \E pass \in DOMAIN dyingPassFences :
        /\ IsFenceComplete(dyingPassFences[pass])
        /\ <<"CleanupPass", pass>> \in executed


\* C7: an entry outside the protected set that is not accessed during the
\* CleanupFrameThreshold + 1 Tick() calls after its last access is absent from
\* the cache after those calls.
C7_AbsentAfterThresholdPlusOneTicks ==
    \A viewID \in ViewIDs :
        (/\ CleanupFrameThreshold >= 0
         /\ ticksSinceAccess[viewID] = CleanupFrameThreshold + 1
         /\ ~protectedAtTick[viewID]
         /\ viewID \notin CleanupPreventionByViewID)
            => viewID \notin DOMAIN dataByViewID

\* C8: a Tick() removes every unprotected entry whose FramesSinceAccess exceeds
\* CleanupFrameThreshold and adds exactly 1 to the FramesSinceAccess of every
\* other unprotected entry; a DataForView call leaves the accessed entry with
\* FramesSinceAccess 0.
C8_TickAndAccessTimestamps ==
    [][/\ PerViewData_Tick =>
            \A viewID \in DOMAIN dataByViewID \ CleanupPreventionByViewID :
                IF dataByViewID[viewID].FramesSinceAccess > CleanupFrameThreshold
                THEN viewID \notin DOMAIN dataByViewID'
                ELSE /\ viewID \in DOMAIN dataByViewID'
                     /\ dataByViewID'[viewID].FramesSinceAccess =
                            dataByViewID[viewID].FramesSinceAccess + 1
       /\ \A viewID \in ViewIDs, viewRect \in ViewRects :
            DataForView(viewID, viewRect) =>
                /\ viewID \in DOMAIN dataByViewID'
                /\ dataByViewID'[viewID].FramesSinceAccess = 0]_vars

C8_Witness ==
    \E removed, kept \in ViewIDs :
        /\ CleanupFrameThreshold >= 1
        /\ ~protectedAtTick[removed]
        /\ ticksSinceAccess[removed] = CleanupFrameThreshold + 2
        /\ removed \notin DOMAIN dataByViewID
        /\ kept \in DOMAIN dataByViewID
        /\ ~protectedAtTick[kept]
        /\ ticksSinceAccess[kept] = 1
        /\ dataByViewID[kept].FramesSinceAccess = 1

\* C9: Tick() never removes an entry whose view ID is in
\* CleanupPreventionByViewID and never advances its FramesSinceAccess.
C9_ProtectedEntryUntouched ==
    [][PerViewData_Tick =>
          \A viewID \in DOMAIN dataByViewID \cap CleanupPreventionByViewID :
              /\ viewID \in DOMAIN dataByViewID'
              /\ dataByViewID'[viewID] = dataByViewID[viewID]]_vars

C9_Witness ==
    \E viewID \in CleanupPreventionByViewID :
        /\ viewID \in DOMAIN dataByViewID
        /\ ticksSinceAccess[viewID] = HistoryCap
        /\ dataByViewID[viewID].FramesSinceAccess = 0

\* C10: with CleanupFrameThreshold >= 0, a Tick() does not evict an entry that
\* was accessed through DataForView since the Tick() before it.
C10_AccessedEveryTickNeverEvicted ==
    [][(PerViewData_Tick /\ CleanupFrameThreshold >= 0) =>
          accessedSinceTick \subseteq DOMAIN dataByViewID']_vars

C10_Witness ==
    \E viewID \in ViewIDs :
        /\ CleanupFrameThreshold = 0
        /\ viewID \notin CleanupPreventionByViewID
        /\ ~protectedAtTick[viewID]
        /\ ticksSinceAccess[viewID] = 1
        /\ viewID \in DOMAIN dataByViewID
        /\ accessedSinceTick = {}

\* C11: DataForView on an entry that exists calls Resample exactly once when the
\* view's rectangle differs from the entry's PixelSubset, with the old size, the
\* new size and the new Min minus the old Min, and then stores the new rectangle
\* as PixelSubset; it calls Resample zero times when the rectangle equals the
\* PixelSubset and when the call itself creates the entry.
C11_ResampleOnceOnRectChange ==
    [][\A viewID \in ViewIDs, viewRect \in ViewRects :
          DataForView(viewID, viewRect) =>
              /\ dataByViewID'[viewID].PixelSubset = viewRect
              /\ IF viewID \in DOMAIN dataByViewID
                    /\ dataByViewID[viewID].PixelSubset # viewRect
                 THEN /\ Len(resampleCalls') = 1
                      /\ resampleCalls'[1].oldResolution =
                             RectSize(dataByViewID[viewID].PixelSubset)
                      /\ resampleCalls'[1].newResolution = RectSize(viewRect)
                      /\ resampleCalls'[1].oldToNewPixelOffset =
                             PointMinus(viewRect.Min, dataByViewID[viewID].PixelSubset.Min)
                      /\ dataByViewID'[viewID].User = resampleCalls'[1]
                 ELSE /\ resampleCalls' = <<>>
                      /\ dataByViewID'[viewID].User =
                             IF viewID \in DOMAIN dataByViewID
                             THEN dataByViewID[viewID].User ELSE NoResample]_vars

\* An entry that was resampled from the large rectangle to the small one, next
\* to an entry that exists and was never resampled.
C11_Witness ==
    \E resized, fresh \in DOMAIN dataByViewID :
        /\ Len(resampleCalls) = 1
        /\ dataByViewID[resized].User = resampleCalls[1]
        /\ resampleCalls[1].oldResolution = <<2, 2>>
        /\ resampleCalls[1].newResolution = <<1, 1>>
        /\ resampleCalls[1].oldToNewPixelOffset = <<1, 0>>
        /\ dataByViewID[resized].PixelSubset = Rect(1, 0, 2, 1)
        /\ dataByViewID[fresh].User = NoResample

\* C12: IsAllowed(t) is true for every t when the mode is unset; otherwise it is
\* true exactly when (t equals some element) = (the mode is Whitelist). A
\* whitelist without elements rejects every candidate and a blacklist without
\* elements accepts every candidate.
C12_IsAllowedByModeAndMembership ==
    returned.fn = "IsAllowed" =>
        LET mode == query.filter.isWhitelist
            listed == query.candidate \in Range(query.filter.elements)
        IN /\ mode = "Unset" => returned.value
           /\ mode = "Whitelist" => (returned.value <=> listed)
           /\ mode = "Blacklist" => (returned.value <=> ~listed)
           /\ (mode = "Whitelist" /\ query.filter.elements = <<>>) => ~returned.value
           /\ (mode = "Blacklist" /\ query.filter.elements = <<>>) => returned.value

C12_Witness ==
    /\ returned.fn = "IsAllowed"
    /\ query.filter.isWhitelist = "Whitelist"
    /\ query.filter.elements = <<>>
    /\ ~returned.value

\* The mutation adds an element with the polarity the copy does not have.
IsConflictingAdd(filter, o) ==
    /\ o.op = "Update"
    /\ o.isAdding
    /\ \/ o.isWhitelist /\ filter.isWhitelist = "Blacklist"
       \/ ~o.isWhitelist /\ filter.isWhitelist = "Whitelist"

\* C13: an element added as whitelisted to a copy whose mode is Blacklist, or as
\* blacklisted to a copy whose mode is Whitelist, is dropped: no check() fails
\* and the copy keeps its mode and its elements. This holds for the game-thread
\* copy, updated at once or by a task, and for the render-thread copy.
C13_ConflictingAddIsRejected ==
    [][/\ \A o \in UpdateOps :
            (MutateFilter_GameThread(o) /\ IsConflictingAdd(filter_GT, o)) =>
                /\ filter_GT' = filter_GT
                /\ ~UpdateFilter_CheckFails(filter_GT, o.isAdding, o.isWhitelist)
       /\ (GameThread_RunTask /\ IsConflictingAdd(filter_GT, Head(gameTasks))) =>
                /\ filter_GT' = filter_GT
                /\ ~UpdateFilter_CheckFails(filter_GT, Head(gameTasks).isAdding,
                                            Head(gameTasks).isWhitelist)
       /\ (RenderThread_UpdateFilter
             /\ IsConflictingAdd(filter_RT, Head(renderQueue).op)) =>
                /\ filter_RT' = filter_RT
                /\ ~UpdateFilter_CheckFails(filter_RT, Head(renderQueue).op.isAdding,
                                            Head(renderQueue).op.isWhitelist)]_vars

\* A whitelisted element was offered to a blacklist: the game-thread copy has
\* dropped it and the render-thread copy is about to receive it.
C13_Witness ==
    /\ renderQueue = <<UpdateFilterCmd(FilterOp("Update", 2, TRUE, TRUE))>>
    /\ gameTasks = <<>>
    /\ workerOp = NoFilterOp
    /\ filter_GT = AddBlacklisted(EmptyFilterList, 1)
    /\ filter_RT = AddBlacklisted(EmptyFilterList, 1)

\* The mode goes from Whitelist to Blacklist or from Blacklist to Whitelist.
IsRepolarized(before, after) ==
    /\ before.isWhitelist # "Unset"
    /\ after.isWhitelist # "Unset"
    /\ before.isWhitelist # after.isWhitelist

\* C14: the polarity of a list that holds an element never changes: every step
\* that takes a copy's mode from Whitelist to Blacklist or from Blacklist to
\* Whitelist leaves that copy without elements.
C14_NoRepolarizingWithElements ==
    [][/\ IsRepolarized(filter_GT, filter_GT') => filter_GT'.elements = <<>>
       /\ IsRepolarized(filter_RT, filter_RT') => filter_RT'.elements = <<>>]_vars

\* Every element of the copy was added with the polarity the copy has now.
IsOfOnePolarity(filter, history) ==
    /\ Len(history.addedAs) = Len(filter.elements)
    /\ \A i \in DOMAIN history.addedAs : history.addedAs[i] = filter.isWhitelist

\* C15: while a copy has only received Add, Remove and Clear calls since it was
\* last cleared, every element it holds was added with the polarity of its
\* current mode, so it never holds an element added as whitelisted together
\* with one added as blacklisted.
C15_ElementsShareTheMode ==
    /\ ~history_GT.configured => IsOfOnePolarity(filter_GT, history_GT)
    /\ ~history_RT.configured => IsOfOnePolarity(filter_RT, history_RT)

\* Two elements added to a blacklist, which the game thread has since cleared.
C15_Witness ==
    /\ ~history_RT.configured
    /\ filter_RT = AddBlacklisted(AddBlacklisted(EmptyFilterList, 1), 2)
    /\ history_RT.addedAs = <<"Blacklist", "Blacklist">>
    /\ filter_GT = EmptyFilterList
    /\ renderQueue = <<UpdateFilterCmd(FilterOp("Clear", 0, FALSE, FALSE))>>

\* The calling thread's copy of each list.
OwnByScene ==
    IF query.thread = "RenderThread" THEN viewFilter.byScene_RT ELSE viewFilter.byScene_GT
OwnByRenderTarget ==
    IF query.thread = "RenderThread"
    THEN viewFilter.byRenderTarget_RT ELSE viewFilter.byRenderTarget_GT
OwnByViewport ==
    IF query.thread = "RenderThread"
    THEN viewFilter.byViewport_RT ELSE viewFilter.byViewport_GT
OwnByPlayerIndex ==
    IF query.thread = "RenderThread"
    THEN viewFilter.byPlayerIndex_RT ELSE viewFilter.byPlayerIndex_GT
OwnByViewActor ==
    IF query.thread = "RenderThread"
    THEN viewFilter.byViewActor_RT ELSE viewFilter.byViewActor_GT

\* A list that holds exactly the value it is asked about, or no value.
Accepts(filter, t) == filter.isWhitelist = "Unset" \/ t \in Range(filter.elements)

\* C16: on one calling thread, ShouldRenderFor(view) is true if and only if
\* ExcludeAll is false and that thread's scene, render-target, player-index and
\* view-actor lists allow the view's scene, render target, player index and
\* actor; the viewport list and the other thread's lists have no influence.
C16_FullViewIsFourFilters ==
    returned.fn = "ShouldRenderFor(FSceneView)" =>
        (returned.value <=>
            /\ ~ExcludeAll
            /\ Accepts(OwnByScene, query.view.Scene)
            /\ Accepts(OwnByRenderTarget, query.view.RenderTarget)
            /\ Accepts(OwnByPlayerIndex, query.view.PlayerIndex)
            /\ Accepts(OwnByViewActor, query.view.ViewActor))

\* The full view is accepted on the render thread although that thread's
\* viewport list rejects its viewport and the game thread's player-index list
\* rejects its player index.
C16_Witness ==
    /\ returned = [fn |-> "ShouldRenderFor(FSceneView)", value |-> TRUE]
    /\ query.thread = "RenderThread"
    /\ ~Accepts(OwnByViewport, query.view.Viewport)
    /\ OwnByScene.isWhitelist = "Whitelist"
    /\ OwnByViewActor.isWhitelist = "Whitelist"
    /\ ~Accepts(viewFilter.byPlayerIndex_GT, query.view.PlayerIndex)

ShouldRenderForOverloads ==
    {"ShouldRenderFor(FViewport)", "ShouldRenderFor(FSceneInterface)",
     "ShouldRenderFor(FSceneViewExtensionContext)", "ShouldRenderFor(FSceneViewFamily)",
     "ShouldRenderFor(FSceneView)"}

\* C17: while ExcludeAll is true, each of the five ShouldRenderFor overloads
\* returns false, on either thread and whatever the ten lists hold.
C17_ExcludeAllRejectsEverything ==
    (ExcludeAll /\ returned.fn \in ShouldRenderForOverloads) => ~returned.value

\* The scene overload rejects a scene under ExcludeAll that every list allows.
C17_Witness ==
    /\ ExcludeAll
    /\ viewFilter = NewViewFilter
    /\ returned = [fn |-> "ShouldRenderFor(FSceneInterface)", value |-> FALSE]

\* The command at the head of the render queue runs to its end in this step.
UpdateProxiesCompletes ==
    RenderThread_UpdateProxies /\ ~renderThreadFaulted'

\* C18: the command that a pass's Tick_GameThread enqueues carries the valid
\* components registered with the pass at that moment, and once the render
\* thread has executed it the keys of ComponentProxies_RenderThread are exactly
\* those components.
C18_TableIsTheTickSnapshot ==
    [][/\ Tick =>
            \A type \in DOMAIN passes :
                \E i \in DOMAIN Enqueued :
                    /\ Enqueued[i].kind = "UpdateCustomRenderPassProxies"
                    /\ Enqueued[i].pass = passes[type]
                    /\ Enqueued[i].components =
                           Components_GameThread[passes[type]] \ destroyedComponents
       /\ UpdateProxiesCompletes =>
            ComponentProxies_RenderThread'[Head(renderQueue).pass] =
                Head(renderQueue).components]_vars

\* The table holds A and B; B has been unregistered and the next frame's
\* command, which carries A alone, is pending.
C18_Witness ==
    \E pass \in Range(passes) :
        /\ ComponentProxies_RenderThread[pass] = {"A", "B"}
        /\ Components_GameThread[pass] = {"A"}
        /\ renderQueue = <<UpdateProxiesCmd(pass, {"A"})>>

\* C19: a registered component whose EnabledInCustomPass is false is not used by
\* the pass: Tick_GameThread leaves it out of the components it hands to the
\* render thread, so it is absent from ComponentProxies_RenderThread after the
\* tick.
C19_DisabledComponentIsLeftOut ==
    [][Tick =>
          \A i \in DOMAIN Enqueued :
              Enqueued[i].components \subseteq EnabledInCustomPass]_vars

\* C20: in each per-frame command the table is reset and rebuilt before
\* Tick_RenderThread is called, so Tick_RenderThread finds exactly the
\* components of that frame's command and nothing of an earlier frame.
C20_TickRenderThreadSeesRebuiltTable ==
    [][UpdateProxiesCompletes =>
          tableAtTick_RenderThread'[Head(renderQueue).pass] =
              Head(renderQueue).components]_vars

\* Tick_RenderThread last found B alone: A, registered but destroyed, was left
\* out of the frame.
C20_Witness ==
    \E pass \in Range(passes) :
        /\ tableAtTick_RenderThread[pass] = {"B"}
        /\ ComponentProxies_RenderThread[pass] = {"B"}
        /\ "A" \in destroyedComponents
        /\ "A" \in Components_GameThread[pass]
        /\ renderQueue = <<>>

\* C21: the per-frame command validates each component of its snapshot when it
\* runs: a component destroyed after Tick_GameThread enqueued the command is
\* skipped, so it is neither dereferenced (the render thread cannot fault on it)
\* nor added to the table.
C21_DestroyedComponentIsSkipped ==
    [][RenderThread_UpdateProxies =>
          /\ ~renderThreadFaulted'
          /\ ComponentProxies_RenderThread'[Head(renderQueue).pass]
                 \cap destroyedComponents = {}]_vars

\* C27: RemoveByRenderTarget, whatever its argument (nullptr included), adds no
\* element to the render-target filter and leaves its mode alone: every element
\* of the list afterwards was in it before, and a call for an element that is
\* not listed changes nothing.
C27_RemoveByRenderTargetOnlyRemoves ==
    [][(\E rt \in RenderTargets : RemoveByRenderTarget(rt)) =>
          /\ filter_GT'.isWhitelist = filter_GT.isWhitelist
          /\ Range(filter_GT'.elements) \subseteq Range(filter_GT.elements)
          /\ Len(filter_GT'.elements) <= Len(filter_GT.elements)]_vars

\* A pass of the type has just been made by GetPass: added to `passes`, given
\* its extension by InitThisPass_GameThread, its InitPass command enqueued last.
IsNewPassOf(type) ==
    /\ type \notin DOMAIN passes
    /\ passes' = MapAdd(passes, type, nextPass)
    /\ nextPass \notin Range(passes)
    /\ SceneViewExtension' = SceneViewExtension \cup {nextPass}
    /\ renderQueue' = Append(renderQueue, InitPassCmd(nextPass))
    /\ GetPass_Result(type, TRUE) = passes'[type]

\* C23: GetPass keeps at most one pass per type. A pass that exists is returned
\* and nothing changes; with none and createIfNeeded false, null is returned and
\* nothing changes; with none and createIfNeeded true exactly one pass is added,
\* its game-thread init has run and exactly one InitPass command is enqueued.
C23_GetPassCreatesAtMostOnce ==
    [][\A type \in PassTypes, createIfNeeded \in BOOLEAN :
          GetPass(type, createIfNeeded) =>
             IF FindPass(type) # Null
             THEN /\ UNCHANGED vars
                  /\ GetPass_Result(type, createIfNeeded) = passes[type]
             ELSE IF ~createIfNeeded
             THEN /\ UNCHANGED vars
                  /\ GetPass_Result(type, createIfNeeded) = Null
             ELSE IsNewPassOf(type)]_vars

\* GetPass has made a pass while another type already had one.
C23_Witness ==
    /\ Cardinality(DOMAIN passes) = 2
    /\ \E type \in DOMAIN passes :
          /\ passes[type] \in SceneViewExtension
          /\ renderQueue # <<>>
          /\ renderQueue[Len(renderQueue)] = InitPassCmd(passes[type])

\* The InitPass command of the pass is ahead of the command at this place.
InitPassIsAhead(pass, place) ==
    \/ <<"InitPass", pass>> \in executed
    \/ \E i \in 1..(place - 1) :
          renderQueue[i].kind = "InitPass" /\ renderQueue[i].pass = pass

\* C24: initialization precedes use on each thread. A pass with a registered
\* component has had InitThisPass_GameThread; InitThisPass_RenderThread runs
\* after InitThisPass_GameThread; and every per-frame command of a pass,
\* executed or still queued, comes after the pass's InitPass command.
C24_InitPrecedesUse ==
    \A pass \in PassIDs :
       /\ Components_GameThread[pass] # {} => pass \in SceneViewExtension
       /\ <<"InitPass", pass>> \in executed => pass \in SceneViewExtension
       /\ <<"UpdateCustomRenderPassProxies", pass>> \in executed =>
             <<"InitPass", pass>> \in executed
       /\ \A j \in DOMAIN renderQueue :
             (renderQueue[j].kind = "UpdateCustomRenderPassProxies"
                 /\ renderQueue[j].pass = pass) => InitPassIsAhead(pass, j)

\* A pass with a registered component has run a per-frame command.
C24_Witness ==
    \E pass \in PassIDs :
       /\ Components_GameThread[pass] # {}
       /\ <<"UpdateCustomRenderPassProxies", pass>> \in executed

\* The pass's extension has been told to stop: its cleanup command has run, or
\* KillRendering was called.
IsKilled(pass) ==
    pass \in stopAllRendering \/ <<"CleanupPass", pass>> \in executed

\* C25: once a pass's cleanup command has executed or KillRendering was called,
\* every later evaluation of the activation functors answers false; the kill
\* flag is never reset.
C25_KilledExtensionStaysInactive ==
    /\ [](\A pass \in PassIDs :
             <<"CleanupPass", pass>> \in executed => pass \in stopAllRendering)
    /\ [][stopAllRendering \subseteq stopAllRendering']_vars
    /\ [][\A pass \in PassIDs, contextWorld \in Worlds, shouldRenderFor \in BOOLEAN :
             (IsKilled(pass) /\ IsActiveThisFrame(pass, contextWorld, shouldRenderFor))
                => ~activation'[pass].active]_vars

\* An extension whose cleanup has run was evaluated for a view of its own world
\* that its filter accepts, and was not selected.
C25_Witness ==
    \E pass \in PassIDs :
       /\ <<"CleanupPass", pass>> \in executed
       /\ activation[pass].evaluated
       /\ activation[pass].world = PassWorld
       /\ activation[pass].filterAccepts
       /\ ~activation[pass].active

\* The component is in no pass's game-thread set, in no command's snapshot and
\* in no pass's render-thread table.
IsInNoPass(c) ==
    /\ \A pass \in PassIDs :
          /\ c \notin Components_GameThread[pass]
          /\ c \notin ComponentProxies_RenderThread[pass]
    /\ \A i \in DOMAIN renderQueue : c \notin renderQueue[i].components

\* C26: a component that begins play without a valid world or subsystem fails
\* no assertion, makes no pass and registers with no pass: BeginPlay only logs
\* its error, and the component is never in a componentProxies table.
C26_BeginPlayWithoutSubsystemIsHarmless ==
    /\ [][\A c \in ComponentIDs, type \in PassTypes,
             worldIsValid \in BOOLEAN, subsystemIsValid \in BOOLEAN :
             (~(worldIsValid /\ subsystemIsValid)
                 /\ BeginPlay(c, type, worldIsValid, subsystemIsValid))
                => /\ beginPlayOutcome'[c] = "ErrorLogged"
                   /\ assertionFailed' = "None"
                   /\ UNCHANGED <<subsystemVars, queueVars, SceneViewExtension>>]_vars
    /\ [](\A c \in ComponentIDs : beginPlayOutcome[c] = "ErrorLogged" => IsInNoPass(c))

\* One component began play without a subsystem while the other one, which had
\* one, has reached its pass's render-thread table.
C26_Witness ==
    \E c \in ComponentIDs, d \in ComponentIDs, pass \in PassIDs :
       /\ beginPlayOutcome[c] = "ErrorLogged"
       /\ beginPlayOutcome[d] = "Registered"
       /\ d \in ComponentProxies_RenderThread[pass]

\* C28: DestroyPass_GameThread(type) returns true exactly when a pass of the
\* type is in `passes`, and once it has run a second call for the type (no
\* GetPass(type, true) in between) returns false and enqueues nothing: the
\* type is no longer in `passes`.
C28_SecondDestroyReturnsFalse ==
    [][\A type \in PassTypes :
          DestroyPass_GameThread(type) =>
             /\ DestroyPass_GameThread_Result(type) = (type \in DOMAIN passes)
             /\ ~DestroyPass_GameThread_Result(type)'
             /\ type \notin DOMAIN passes']_vars

\* C30: every per-frame command of a pass precedes the pass's cleanup command:
\* no UpdateCustomRenderPassProxies command is pending for a pass whose
\* CleanupPass command is ahead of it in the queue or has already executed.
C30_NoPerFrameCommandAfterCleanup ==
    \A j \in DOMAIN renderQueue :
       renderQueue[j].kind = "UpdateCustomRenderPassProxies" =>
          /\ <<"CleanupPass", renderQueue[j].pass>> \notin executed
          /\ \A i \in 1..(j - 1) :
                ~(renderQueue[i].kind = "CleanupPass"
                     /\ renderQueue[i].pass = renderQueue[j].pass)

\* A blob that is whole: the initial empty one, or the one made by a single
\* ConstructProxyData_GameThread call.
IsWholeBlob(blob) ==
    \/ blob = <<>>
    \/ \E n \in 1..constructCalls : blob = ConstructProxyData_GameThread(n)

\* C22: every read of a component's shared proxy buffer on the render thread
\* yields a whole blob, the empty one or the one of a single
\* ConstructProxyData_GameThread call, however TickComponent interleaves with
\* the render thread's commands; the buffer is written only by the
\* CopyCustomPassProxy command on the render thread.
C22_ProxyReadsAreWhole ==
    /\ [](\A c \in ComponentIDs :
             IsWholeBlob(proxyRead[c]) /\ IsWholeBlob(GetProxy_RenderThread(c)))
    /\ [][renderThreadProxy' # renderThreadProxy => RenderThread_CopyProxy]_vars

\* The render thread has read the second blob of a component whose buffer was
\* overwritten once, while a command with a further blob for it is pending.
C22_Witness ==
    \E c \in ComponentIDs, n \in 2..MaxConstructCalls :
       /\ proxyRead[c] = ConstructProxyData_GameThread(n)
       /\ \E i \in DOMAIN renderQueue :
             /\ renderQueue[i].kind = "CopyCustomPassProxy"
             /\ renderQueue[i].components = {c}
             /\ renderQueue[i].newProxy # proxyRead[c]

\* The step is a failed assertion of the function and nothing else.
OnlyFails(fn) ==
    /\ assertionFailed' = fn
    /\ UNCHANGED <<subsystemVars, queueVars, filterVars, cacheVars, componentVars,
                   viewFilterVars, SceneViewExtension, activation, beginPlayOutcome,
                   renderThreadProxy, constructCalls, proxyRead, passBuffer>>

\* C29: a thread-affinity violation is an assertion failure that comes before
\* any state change. RegisterPassComponent, UnregisterPassComponent, GetPass and
\* DestroyPass called off the game thread, and the per-view cache's Tick and
\* DataForView, GetComponentData_RenderThread and GetProxy_RenderThread called
\* off the render thread, fail their check and leave every object as it was.
C29_WrongThreadFailsBeforeAnyChange ==
    [][\A thread \in Threads :
          /\ ~IsInGameThread(thread) =>
                /\ \A pass \in PassIDs, c \in ComponentIDs :
                      /\ RegisterPassComponent_OnThread(thread, pass, c)
                            => OnlyFails("RegisterPassComponent")
                      /\ UnregisterPassComponent_OnThread(thread, pass, c)
                            => OnlyFails("UnregisterPassComponent")
                /\ \A type \in PassTypes :
                      /\ \A createIfNeeded \in BOOLEAN :
                            GetPass_OnThread(thread, type, createIfNeeded)
                               => OnlyFails("GetPass")
                      /\ DestroyPass_GameThread_OnThread(thread, type)
                            => OnlyFails("DestroyPass_GameThread")
          /\ ~IsInRenderingThread(thread) =>
                /\ PerViewData_Tick_OnThread(thread) => OnlyFails("Tick")
                /\ \A viewID \in ViewIDs, viewRect \in ViewRects :
                      DataForView_OnThread(thread, viewID, viewRect)
                         => OnlyFails("DataForView")
                /\ \A pass \in PassIDs :
                      GetComponentData_RenderThread_OnThread(thread, pass)
                         => OnlyFails("GetComponentData_RenderThread")
                /\ \A c \in ComponentIDs :
                      GetProxy_RenderThread_OnThread(thread, c)
                         => OnlyFails("GetProxy_RenderThread")]_vars

\* A check has failed in a program that had a pass with a registered component
\* and a cached view.
C29_Witness ==
    /\ assertionFailed # "None"
    /\ \E pass \in Range(passes) : Components_GameThread[pass] # {}
    /\ DOMAIN dataByViewID # {}

\* The subsystemIsDying arguments of the cleanup commands a step enqueued.
EnqueuedSubsystemIsDying ==
    {SubsystemIsDying(Enqueued[i]) :
        i \in {j \in DOMAIN Enqueued : Enqueued[j].kind = "CleanupPass"}}

\* C40: CleanupThisPass_RenderThread receives subsystemIsDying = false from an
\* explicit DestroyPass during normal operation, and subsystemIsDying = true
\* from the teardown of the subsystem.
C40_SubsystemIsDyingMeansTeardown ==
    [][/\ \A type \in PassTypes :
            (~isCurrentlyDying /\ DestroyPass_GameThread(type))
               => EnqueuedSubsystemIsDying \subseteq {FALSE}
       /\ BeginDestroy => EnqueuedSubsystemIsDying \subseteq {TRUE}]_vars

\* C38: the extension-context overload returns true exactly when ExcludeAll is
\* false and the calling thread's scene list allows the context's scene and its
\* viewport list allows the context's viewport; the render-target, player-index
\* and view-actor lists have no say.
C38_ContextIsSceneAndViewport ==
    returned.fn = "ShouldRenderFor(FSceneViewExtensionContext)" =>
        returned.value = (/\ ~ExcludeAll
                          /\ Accepts(OwnByScene, query.view.Scene)
                          /\ Accepts(OwnByViewport, query.view.Viewport))

\* The overload accepted a context through whitelists of its scene and viewport
\* while the thread's other three lists reject the view.
C38_Witness ==
    /\ returned = [fn |-> "ShouldRenderFor(FSceneViewExtensionContext)", value |-> TRUE]
    /\ OwnByScene.isWhitelist = "Whitelist"
    /\ OwnByViewport.isWhitelist = "Whitelist"
    /\ ~Accepts(OwnByRenderTarget, query.view.RenderTarget)
    /\ ~Accepts(OwnByPlayerIndex, query.view.PlayerIndex)
    /\ ~Accepts(OwnByViewActor, query.view.ViewActor)

\* How many times the value is in the list.
Occurrences(filter, t) ==
    Cardinality({i \in DOMAIN filter.elements : filter.elements[i] = t})

\* C37: Remove(x) removes every element equal to x, keeps every other element
\* and the mode, and changes nothing when x is not listed; a list that Remove
\* has emptied keeps its polarity, so an add of the other polarity is still
\* rejected.
C37_RemoveKeepsModeAndOthers ==
    [][\A o \in UpdateOps :
          MutateFilter_GameThread(o) =>
             IF ~o.isAdding
             THEN /\ filter_GT'.isWhitelist = filter_GT.isWhitelist
                  /\ Occurrences(filter_GT', o.element) = 0
                  /\ \A t \in FilterValues \ {o.element} :
                        Occurrences(filter_GT', t) = Occurrences(filter_GT, t)
                  /\ Len(filter_GT'.elements)
                        = Len(filter_GT.elements) - Occurrences(filter_GT, o.element)
                  /\ ~IsListed(filter_GT, o.element) => filter_GT' = filter_GT
             ELSE (/\ filter_GT.elements = <<>>
                   /\ filter_GT.isWhitelist \notin {"Unset", ModeOf(o.isWhitelist)})
                      => filter_GT' = filter_GT]_vars

\* A whitelist was emptied by Remove and the blacklisted add that followed was
\* dropped.
C37_Witness ==
    /\ filter_GT = [isWhitelist |-> "Whitelist", elements |-> <<>>]
    /\ Len(renderQueue) = 3
    /\ renderQueue[1].op = FilterOp("Update", 1, TRUE, TRUE)
    /\ renderQueue[2].op = FilterOp("Update", 1, FALSE, FALSE)
    /\ renderQueue[3].op = FilterOp("Update", 2, TRUE, FALSE)

\* The list after the mutations of these commands, applied in order.
RECURSIVE AfterCommands(_, _)
AfterCommands(filter, commands) ==
    IF commands = <<>> THEN filter
    ELSE AfterCommands(ApplyFilterOp(filter, Head(commands).op), Tail(commands))

\* C36: with callers on the game thread only, each mutation reaches both copies
\* once and in the order of the calls: the render-thread copy is the game-thread
\* copy as it was before the mutations still queued, so applying those, in
\* order, to the render-thread copy gives the game-thread copy.
C36_RenderCopyTrailsGameCopy ==
    AfterCommands(filter_RT, renderQueue) = filter_GT

\* The render thread has applied one mutation and two more are queued for it.
C36_Witness ==
    /\ filter_RT.elements # <<>>
    /\ filter_RT # filter_GT
    /\ Len(renderQueue) = 2
    /\ ApplyFilterOp(filter_RT, renderQueue[1].op) # filter_GT

\* C39: with a CleanupFrameThreshold that is not negative, every cached entry
\* outside the protected set has 0 <= FramesSinceAccess <= CleanupFrameThreshold
\* + 1, after any Tick and DataForView calls.
C39_FramesSinceAccessIsBounded ==
    CleanupFrameThreshold >= 0 =>
        \A viewID \in DOMAIN dataByViewID \ CleanupPreventionByViewID :
           /\ 0 <= dataByViewID[viewID].FramesSinceAccess
           /\ dataByViewID[viewID].FramesSinceAccess <= CleanupFrameThreshold + 1

\* An unprotected entry has reached the bound while the other view's entry,
\* accessed since, has not.
C39_Witness ==
    /\ CleanupFrameThreshold >= 1
    /\ \E v \in DOMAIN dataByViewID \ CleanupPreventionByViewID,
          w \in DOMAIN dataByViewID \ CleanupPreventionByViewID :
          /\ dataByViewID[v].FramesSinceAccess = CleanupFrameThreshold + 1
          /\ dataByViewID[w].FramesSinceAccess = 0

\* C34: once BeginDestroy has set isCurrentlyDying, `passes` stays empty and no
\* later step, a GetPass(type, true) included, adds a pass or enqueues an
\* InitPass command.
C34_NoPassAfterTeardownBegins ==
    /\ [](isCurrentlyDying => passes = EmptyMap)
    /\ [][isCurrentlyDying =>
            /\ passes' = passes
            /\ \A i \in DOMAIN Enqueued : Enqueued[i].kind # "InitPass"]_vars

\* C33: EndPlay never creates a pass: `passes` has as many passes after it as
\* before, also when the component's pass type was destroyed with DestroyPass.
C33_EndPlayCreatesNoPass ==
    [][\A c \in ComponentIDs, worldIsValid \in BOOLEAN, subsystemIsValid \in BOOLEAN :
          EndPlay(c, worldIsValid, subsystemIsValid) =>
             /\ Cardinality(DOMAIN passes') = Cardinality(DOMAIN passes)
             /\ nextPass' = nextPass]_vars

\* The commands that read or write the proxy buffer of a component.
TouchesProxy(cmd, c) ==
    /\ cmd.kind \in {"UpdateCustomRenderPassProxies", "CopyCustomPassProxy"}
    /\ c \in cmd.components

TicksOf(pass) ==
    Cardinality({i \in DOMAIN Enqueued :
                    /\ Enqueued[i].kind = "UpdateCustomRenderPassProxies"
                    /\ Enqueued[i].pass = pass})

\* C31: a subsystem Tick calls Tick_GameThread exactly once on every pass that
\* was in `passes` when it started and on no other, also when a pass destroys or
\* creates a pass during the iteration, and passBuffer is empty before and after
\* the Tick.
C31_TickVisitsEachPassOnce ==
    [][(Tick \/ Tick_PassDestroysPass \/ Tick_PassCreatesPass) =>
          /\ passBuffer = <<>>
          /\ passBuffer' = <<>>
          /\ \A pass \in PassIDs :
                TicksOf(pass) = IF pass \in Range(passes) THEN 1 ELSE 0]_vars

\* A pass was ticked after the cleanup a pass of the same Tick enqueued for it,
\* next to a pass that is still in `passes`.
C31_Witness ==
    /\ passBuffer = <<>>
    /\ DOMAIN passes # {}
    /\ \E i, j \in DOMAIN renderQueue :
          /\ i < j
          /\ renderQueue[i].kind = "CleanupPass"
          /\ renderQueue[j].kind = "UpdateCustomRenderPassProxies"
          /\ renderQueue[j].pass = renderQueue[i].pass

\* The entries of a table that are renderable: a valid component whose target
\* has a scene proxy.
Renderable(table) ==
    SelectSeq(table, LAMBDA entry : entry.isValid /\ entry.target = "HasSceneProxy")

\* C35: ForEachComponent_RenderThread calls toDo on every entry whose component
\* is valid and whose target has a scene proxy, in table order; an entry with a
\* null target or no scene proxy does not keep later entries from being visited.
C35_ForEachVisitsEveryRenderableEntry ==
    returned.fn = "ForEachComponent_RenderThread" =>
       returned.value =
          [i \in DOMAIN Renderable(query.table) |-> Renderable(query.table)[i].component]

====
